---- MODULE Spec2Model ----
(***************************************************************************)
(* MedFlow Pro: the HTTP + socket.io server of src/database.js over its    *)
(* mongoose collections.  Every handler is cut at its awaits: one action   *)
(* per database operation, so that handlers of different requests          *)
(* interleave exactly where the event loop lets them.                      *)
(***************************************************************************)
EXTENDS Integers, Sequences, FiniteSets, TLC

VARIABLES
  hospitals,    \* Hospital collection: sequence, _id = index
  users,        \* User collection: sequence, _id = index
  patients,     \* Patient collection: sequence, _id = index
  labTests,     \* LabTest collection: sequence, _id = index
  labResults,   \* LabResult collection: sequence, in insertion order
  labInventory, \* LabInventory collection: sequence, _id = index
  labTestTypes, \* LabTestType collection: sequence, _id = index
  templates,    \* PrescriptionTemplate collection: sequence, _id = index
  sessions,     \* req.session of every browser session
  rooms,        \* socket.io: the rooms each socket has joined
  pc,           \* where each request in flight stands
  arg,          \* the request each client slot has in flight
  loc,          \* the locals of the handler serving it
  resp,         \* the answer its last request got
  sent,         \* the socket.io deliveries it caused
  fault,        \* whether a database operation of it threw
  now           \* the clock (new Date())

vars == <<hospitals, users, patients, labTests, labResults,
          labInventory, labTestTypes, templates,
          sessions, rooms, pc, arg, loc, resp, sent, fault, now>>

\* the lab's settings collections
settings == <<labInventory, labTestTypes, templates>>

dbVars == <<hospitals, users, patients, labTests, labResults, settings>>

-----------------------------------------------------------------------------
(* Bounds of the model *)

MaxPatients == 3
MaxClock == 2
DayLength == 2
MaxSessionClock == 4
MaxSocketPatients == 1
MaxSocketLabTests == 1
MaxRacePatients == 1
MaxRaceLabTests == 1
MaxHospitals == 2
MaxUsers == 3
MaxRestHospitals == 1
MaxRestPatients == 2
MaxRestLabTests == 1

Tasks == {1, 2}
Sockets == {"s1", "s2"}
SessionIds == {"b1", "b2"}

FallbackHospitalId == 0

\* the trial subscription of a new hospital, in days
TrialDays == 30

\* the lengths of a month and of a year on the model's clock
MonthLength == 4
YearLength == 8

-----------------------------------------------------------------------------
(* Strings the code looks into are sequences of characters *)

Undef == <<"undefined">>

Truthy(str) == str # Undef /\ str # <<>>

UpperChars == <<"A", "B", "C", "L", "T">>
LowerChars == <<"a", "b", "c", "l", "t">>

LowerChar(c) ==
  IF \E i \in 1..Len(UpperChars) : UpperChars[i] = c
  THEN LowerChars[CHOOSE i \in 1..Len(UpperChars) : UpperChars[i] = c]
  ELSE c

ToLowerCase(str) == [i \in 1..Len(str) |-> LowerChar(str[i])]

Includes(str, sub) ==
  \E i \in 0..(Len(str) - Len(sub)) :
    \A j \in 1..Len(sub) : str[i + j] = sub[j]

RECURSIVE TrimStart(_)
TrimStart(str) ==
  IF str # <<>> /\ Head(str) = " " THEN TrimStart(Tail(str)) ELSE str

RECURSIVE TrimEnd(_)
TrimEnd(str) ==
  IF str # <<>> /\ str[Len(str)] = " "
  THEN TrimEnd(SubSeq(str, 1, Len(str) - 1)) ELSE str

Trim(str) == TrimEnd(TrimStart(str))

labKeywords ==
  << <<"t","e","s","t">>, <<"l","a","b">>, <<"c","b","c">>,
     <<"b","l","o","o","d">>, <<"u","r","i","n","e">>,
     <<"x","-","r","a","y">>, <<"s","c","a","n">>,
     <<"p","r","o","f","i","l","e">>, <<"p","a","n","e","l">> >>

hasLabRequest(prescription) ==
  \E k \in 1..Len(labKeywords) :
    Includes(ToLowerCase(prescription), labKeywords[k])

-----------------------------------------------------------------------------
(* Static data *)

doctors ==
  << [id |-> 1, dept |-> "General"], [id |-> 2, dept |-> "Orthopedics"],
     [id |-> 3, dept |-> "Gynecology"], [id |-> 4, dept |-> "Cardiology"] >>

AvailableDoctor(dept) ==
  IF \E i \in 1..Len(doctors) : doctors[i].dept = dept
  THEN doctors[CHOOSE i \in 1..Len(doctors) :
                 /\ doctors[i].dept = dept
                 /\ \A j \in 1..(i - 1) : doctors[j].dept # dept].id
  ELSE 0

-----------------------------------------------------------------------------
(* Client slots and their answers *)

NoArg == [op |-> "none"]
NoLoc == [at |-> "none"]
NoResp == [op |-> "none", who |-> "", outcome |-> "none", code |-> 0, data |-> {}]

\* a request: the event or route, the socket or browser session it came
\* from, and what it carried
Request(op, who, data) == [op |-> op, who |-> who, data |-> data]

Answer(outcome, code, data) == [outcome |-> outcome, code |-> code, data |-> data]

\* res.status(500).json({ error: err.message })
Failure == Answer("error", 500, {"message"})

Idle(p) == pc[p] = "idle"

Answered(req, r) ==
  [op |-> req.op, who |-> req.who, outcome |-> r.outcome, code |-> r.code,
   data |-> r.data]

\* the handler of p's request ends: its answer and its deliveries are known
Finish(p, req, r, deliveries) ==
  /\ pc' = [pc EXCEPT ![p] = "idle"]
  /\ arg' = [arg EXCEPT ![p] = NoArg]
  /\ loc' = [loc EXCEPT ![p] = NoLoc]
  /\ resp' = [resp EXCEPT ![p] = Answered(req, r)]
  /\ sent' = [sent EXCEPT ![p] = deliveries]
  /\ fault' = [fault EXCEPT ![p] = FALSE]

\* a database operation of p's request throws: the handler's catch block ends it
Throw(p, req, r, deliveries) ==
  /\ pc' = [pc EXCEPT ![p] = "idle"]
  /\ arg' = [arg EXCEPT ![p] = NoArg]
  /\ loc' = [loc EXCEPT ![p] = NoLoc]
  /\ resp' = [resp EXCEPT ![p] = Answered(req, r)]
  /\ sent' = [sent EXCEPT ![p] = deliveries]
  /\ fault' = [fault EXCEPT ![p] = TRUE]

\* the handler of p's request reaches its next await
Await(p, req, label, locals) ==
  /\ pc' = [pc EXCEPT ![p] = label]
  /\ arg' = [arg EXCEPT ![p] = req]
  /\ loc' = [loc EXCEPT ![p] = locals]
  /\ resp' = [resp EXCEPT ![p] = NoResp]
  /\ sent' = [sent EXCEPT ![p] = {}]
  /\ fault' = [fault EXCEPT ![p] = FALSE]

-----------------------------------------------------------------------------
(* socket.io *)

\* a join handler that takes every role for a room name
RoomOf_AnyRole(r) == IF r = "doctor" THEN {"doctors"} ELSE {r}

RoomOf(r) ==
  CASE r = "doctor" -> {"doctors"}
    [] r = "reception" -> {"reception"}
    [] r = "pharmacy" -> {"pharmacy"}
    [] r = "lab" -> {"lab"}
    [] OTHER -> {}

\* one delivery of an emit: the receiving socket, the event, the patient it
\* carries (0: none) and the target of the emit (a room, "all", "socket")
Delivery(s, ev, pid, via) == [to |-> s, ev |-> ev, pid |-> pid, via |-> via]

Members(room) == {s \in Sockets : room \in rooms[s]}

\* io.to(room).emit(ev, patient)
ToRoom(room, ev, pid) == {Delivery(s, ev, pid, room) : s \in Members(room)}

\* io.emit(ev, patient)
ToAll(ev, pid) == {Delivery(s, ev, pid, "all") : s \in Sockets}

\* socket.emit(ev, patient)
ToSocket(s, ev, pid) == {Delivery(s, ev, pid, "socket")}

Join(s, r) ==
  /\ rooms' = [rooms EXCEPT ![s] = @ \cup RoomOf(r)]
  /\ UNCHANGED <<dbVars, sessions, pc, arg, loc, resp, sent, fault, now>>

-----------------------------------------------------------------------------
(* Collections *)

Ids(coll) == 1..Len(coll)

CountPatients(dept, hospitalId) ==
  Cardinality({i \in Ids(patients) :
     patients[i].department = dept /\ patients[i].hospitalId = hospitalId})

NewPatient(hospitalId, token, dept, doctorId, prescription) ==
  [hospitalId |-> hospitalId, token |-> token, department |-> dept,
   doctorId |-> doctorId, status |-> "waiting", prescription |-> prescription,
   pharmacyState |-> "", registeredAt |-> now, publicToken |-> ""]

\* a lab test filed under the fallback hospital instead of the patient's
NewLabTest_FallbackHospital(hospitalId, patientId, testName) ==
  [hospitalId |-> FallbackHospitalId, patientId |-> patientId,
   testName |-> testName,
   orderedAt |-> now, status |-> "pending", priority |-> "normal",
   sampleStatus |-> "pending", technicianId |-> 0, machineId |-> "",
   sampleCollectedAt |-> 0, sampleCollectedBy |-> "", rejectionReason |-> "",
   startedAt |-> 0, completedAt |-> 0, resultDate |-> 0]

NewLabTest(hospitalId, patientId, testName) ==
  [hospitalId |-> hospitalId, patientId |-> patientId, testName |-> testName,
   orderedAt |-> now, status |-> "pending", priority |-> "normal",
   sampleStatus |-> "pending", technicianId |-> 0, machineId |-> "",
   sampleCollectedAt |-> 0, sampleCollectedBy |-> "", rejectionReason |-> "",
   startedAt |-> 0, completedAt |-> 0, resultDate |-> 0]

\* registrations and lab orders in flight, and the room left for more of them
\* within the model's bounds
Registering == Cardinality({q \in Tasks : pc[q] = "reg_create"})
Ordering == Cardinality({q \in Tasks : pc[q] \in {"upd_find", "upd_create", "lab_create"}})
RoomForPatients(max) == Len(patients) + Registering < max
RoomForLabTests(max) == Len(labTests) + Ordering < max

-----------------------------------------------------------------------------
(* socket.on('register-patient') *)

\* the handler without its check of the name
RegisterPatient_NoNameCheck(p, s, data, fail) ==
  /\ Idle(p)
  /\ LET dept == IF data.department # "" THEN data.department ELSE "General"
         hospitalId == IF data.hospitalId # 0 THEN data.hospitalId
                       ELSE FallbackHospitalId
     IN IF fail
        THEN Throw(p, Request("register-patient", s, data), Answer("error", 0, {}),
                   ToSocket(s, "patient-registration-error", 0))
        ELSE Await(p, Request("register-patient", s, data), "reg_create",
                   [dept |-> dept, hospitalId |-> hospitalId,
                    count |-> CountPatients(dept, hospitalId)])
  /\ UNCHANGED <<dbVars, sessions, rooms, now>>

RegisterPatient(p, s, data, fail) ==
  /\ Idle(p)
  /\ LET dept == IF data.department # "" THEN data.department ELSE "General"
         hospitalId == IF data.hospitalId # 0 THEN data.hospitalId
                       ELSE FallbackHospitalId
     IN IF ~Truthy(data.name) \/ Trim(data.name) = <<>>
        THEN Finish(p, Request("register-patient", s, data), Answer("invalid", 0, {}),
                    ToSocket(s, "patient-registration-error", 0))
        ELSE IF fail
        THEN Throw(p, Request("register-patient", s, data), Answer("error", 0, {}),
                   ToSocket(s, "patient-registration-error", 0))
        ELSE Await(p, Request("register-patient", s, data), "reg_create",
                   [dept |-> dept, hospitalId |-> hospitalId,
                    count |-> CountPatients(dept, hospitalId)])
  /\ UNCHANGED <<dbVars, sessions, rooms, now>>

RegisterCreate(p, fail) ==
  /\ pc[p] = "reg_create"
  /\ LET data == arg[p].data
         s == arg[p].who
         token == loc[p].count + 1
         assignedDoctor == IF data.doctorId # 0 THEN data.doctorId
                           ELSE AvailableDoctor(loc[p].dept)
         id == Len(patients) + 1
     IN IF fail
        THEN /\ Throw(p, arg[p], Answer("error", 0, {}),
                      ToSocket(s, "patient-registration-error", 0))
             /\ UNCHANGED patients
        ELSE /\ patients' = Append(patients,
                    NewPatient(loc[p].hospitalId, token, loc[p].dept,
                               assignedDoctor, data.prescription))
             /\ Finish(p, arg[p], Answer("ok", 0, {id}),
                       ToRoom("doctors", "patient-registered", id)
                         \cup ToRoom("reception", "patient-registered", id)
                         \cup ToAll("queue-updated", id)
                         \cup ToSocket(s, "patient-registered", id))
  /\ UNCHANGED <<settings, hospitals, users, labTests, labResults,
                 sessions, rooms, now>>

-----------------------------------------------------------------------------
(* socket.on('move-patient') *)

MovePatient(p, s, data, fail) ==
  /\ Idle(p)
  /\ LET req == Request("move-patient", s, data)
     IN IF fail THEN Throw(p, req, Answer("error", 0, {}), {})
        ELSE IF data.id \notin Ids(patients)
        THEN Finish(p, req, Answer("notfound", 0, {}), {})
        ELSE Await(p, req, "move_save", [patient |-> patients[data.id]])
  /\ UNCHANGED <<dbVars, sessions, rooms, now>>

\* patient.save(): mongoose $sets the paths the handler changed on its copy
SavePatient(stored, loaded, changed) ==
  [f \in DOMAIN stored |->
     IF changed[f] # loaded[f] THEN changed[f] ELSE stored[f]]

\* the handler as it would be with optimistic locking: a save over a document
\* that changed since it was loaded is refused
MoveSave_Versioned(p, fail) ==
  /\ pc[p] = "move_save"
  /\ LET data == arg[p].data
         loaded == loc[p].patient
         a == IF data.status # "" THEN [loaded EXCEPT !.status = data.status]
              ELSE loaded
         b == IF data.doctorId # 0 THEN [a EXCEPT !.doctorId = data.doctorId]
              ELSE a
         c == IF data.pharmacyState # ""
              THEN [b EXCEPT !.pharmacyState = data.pharmacyState] ELSE b
     IN IF fail \/ patients[data.id] # loaded
        THEN /\ Throw(p, arg[p], Answer("conflict", 0, {}), {})
             /\ UNCHANGED patients
        ELSE /\ patients' = [patients EXCEPT
                               ![data.id] = SavePatient(@, loaded, c)]
             /\ Finish(p, arg[p], Answer("ok", 0, {c}),
                       ToAll("patient-updated", data.id)
                         \cup ToRoom("doctors", "queue-updated", data.id)
                         \cup ToRoom("reception", "queue-updated", data.id)
                         \cup ToRoom("pharmacy", "queue-updated", data.id))
  /\ UNCHANGED <<settings, hospitals, users, labTests, labResults,
                 sessions, rooms, now>>

\* a save that writes the whole loaded document back
MoveSave_WholeDocument(p, fail) ==
  /\ pc[p] = "move_save"
  /\ LET data == arg[p].data
         loaded == loc[p].patient
         a == IF data.status # "" THEN [loaded EXCEPT !.status = data.status]
              ELSE loaded
         b == IF data.doctorId # 0 THEN [a EXCEPT !.doctorId = data.doctorId]
              ELSE a
         c == IF data.pharmacyState # ""
              THEN [b EXCEPT !.pharmacyState = data.pharmacyState] ELSE b
     IN IF fail
        THEN /\ Throw(p, arg[p], Answer("error", 0, {}), {})
             /\ UNCHANGED patients
        ELSE /\ patients' = [patients EXCEPT ![data.id] = c]
             /\ Finish(p, arg[p], Answer("ok", 0, {c}),
                       ToAll("patient-updated", data.id)
                         \cup ToRoom("doctors", "queue-updated", data.id)
                         \cup ToRoom("reception", "queue-updated", data.id)
                         \cup ToRoom("pharmacy", "queue-updated", data.id))
  /\ UNCHANGED <<settings, hospitals, users, labTests, labResults,
                 sessions, rooms, now>>

MoveSave(p, fail) ==
  /\ pc[p] = "move_save"
  /\ LET data == arg[p].data
         loaded == loc[p].patient
         a == IF data.status # "" THEN [loaded EXCEPT !.status = data.status]
              ELSE loaded
         b == IF data.doctorId # 0 THEN [a EXCEPT !.doctorId = data.doctorId]
              ELSE a
         c == IF data.pharmacyState # ""
              THEN [b EXCEPT !.pharmacyState = data.pharmacyState] ELSE b
     IN IF fail
        THEN /\ Throw(p, arg[p], Answer("error", 0, {}), {})
             /\ UNCHANGED patients
        ELSE /\ patients' = [patients EXCEPT
                               ![data.id] = SavePatient(@, loaded, c)]
             /\ Finish(p, arg[p], Answer("ok", 0, {c}),
                       ToAll("patient-updated", data.id)
                         \cup ToRoom("doctors", "queue-updated", data.id)
                         \cup ToRoom("reception", "queue-updated", data.id)
                         \cup ToRoom("pharmacy", "queue-updated", data.id))
  /\ UNCHANGED <<settings, hospitals, users, labTests, labResults,
                 sessions, rooms, now>>

-----------------------------------------------------------------------------
(* socket.on('update-prescription') *)

\* today.setHours(0, 0, 0, 0)
Today == (now \div DayLength) * DayLength

PrescriptionUpdated(s, id) ==
  ToRoom("doctors", "prescription-updated", id)
    \cup ToRoom("reception", "prescription-updated", id)
    \cup ToSocket(s, "prescription-updated", id)

UpdatePrescription(p, s, data, fail) ==
  /\ Idle(p)
  /\ IF fail
     THEN /\ Throw(p, Request("update-prescription", s, data), Answer("error", 0, {}), {})
          /\ UNCHANGED patients
     ELSE IF data.id \notin Ids(patients)
     THEN /\ Finish(p, Request("update-prescription", s, data), Answer("notfound", 0, {}), {})
          /\ UNCHANGED patients
     ELSE /\ patients' = [patients EXCEPT ![data.id].prescription =
                            IF data.prescription = Undef THEN @
                            ELSE data.prescription]
          /\ IF data.prescription = Undef
             THEN Finish(p, Request("update-prescription", s, data), Answer("error", 0, {}), {})
             ELSE IF hasLabRequest(data.prescription)
             THEN Await(p, Request("update-prescription", s, data), "upd_find",
                        [patient |-> patients'[data.id]])
             ELSE Finish(p, Request("update-prescription", s, data),
                         Answer("ok", 0, {patients'[data.id]}),
                         PrescriptionUpdated(s, data.id))
  /\ UNCHANGED <<settings, hospitals, users, labTests, labResults,
                 sessions, rooms, now>>

UpdateFindExisting(p, fail) ==
  /\ pc[p] = "upd_find"
  /\ LET id == arg[p].data.id
         existing == \E t \in Ids(labTests) :
                       /\ labTests[t].patientId = id
                       /\ labTests[t].orderedAt >= Today
                       /\ labTests[t].status = "pending"
     IN IF fail THEN Throw(p, arg[p], Answer("error", 0, {}), {})
        ELSE IF existing
        THEN Finish(p, arg[p], Answer("ok", 0, {loc[p].patient}),
                    PrescriptionUpdated(arg[p].who, id))
        ELSE Await(p, arg[p], "upd_create", loc[p])
  /\ UNCHANGED <<dbVars, sessions, rooms, now>>

UpdateCreateTest(p, fail) ==
  /\ pc[p] = "upd_create"
  /\ LET id == arg[p].data.id
     IN IF fail
        THEN /\ Throw(p, arg[p], Answer("error", 0, {}), {})
             /\ UNCHANGED labTests
        ELSE /\ labTests' = Append(labTests,
                   NewLabTest(loc[p].patient.hospitalId, id,
                              "Lab Test Request (from Prescription)"))
             /\ Finish(p, arg[p], Answer("ok", 0, {loc[p].patient}),
                       ToRoom("lab", "lab-update", 0)
                         \cup PrescriptionUpdated(arg[p].who, id))
  /\ UNCHANGED <<settings, hospitals, users, patients, labResults,
                 sessions, rooms, now>>

-----------------------------------------------------------------------------
(* socket.on('create-lab-request') *)

CreateLabRequest(p, s, data, fail) ==
  /\ Idle(p)
  /\ IF fail
     THEN Throw(p, Request("create-lab-request", s, data), Answer("error", 0, {}),
                ToSocket(s, "lab-request-created{success:false}", 0))
     ELSE IF data.patientId \notin Ids(patients)
     THEN Finish(p, Request("create-lab-request", s, data), Answer("notfound", 0, {}),
                 ToSocket(s, "lab-request-created{success:false}", 0))
     ELSE Await(p, Request("create-lab-request", s, data), "lab_create",
                [patient |-> patients[data.patientId]])
  /\ UNCHANGED <<dbVars, sessions, rooms, now>>

CreateLabTest(p, fail) ==
  /\ pc[p] = "lab_create"
  /\ LET data == arg[p].data
         s == arg[p].who
     IN IF fail
        THEN /\ Throw(p, arg[p], Answer("error", 0, {}),
                      ToSocket(s, "lab-request-created{success:false}", 0))
             /\ UNCHANGED labTests
        ELSE /\ labTests' = Append(labTests,
                   NewLabTest(loc[p].patient.hospitalId, data.patientId,
                              IF data.testName # "" THEN data.testName
                              ELSE "Manual Lab Request"))
             /\ Finish(p, arg[p], Answer("ok", 0, {Len(labTests) + 1}),
                       ToRoom("lab", "lab-update", 0)
                         \cup ToSocket(s, "lab-request-created", 0))
  /\ UNCHANGED <<settings, hospitals, users, patients, labResults,
                 sessions, rooms, now>>

-----------------------------------------------------------------------------
(* REST: the lab's write endpoints.  b is the browser session of the request *)

\* LabTest.findByIdAndUpdate(id, update): no document, no change, no error
UpdateLabTest(id, update) ==
  IF id \in Ids(labTests)
  THEN labTests' = [labTests EXCEPT ![id] =
                      [f \in DOMAIN @ |-> IF f \in DOMAIN update THEN update[f]
                                          ELSE @[f]]]
  ELSE UNCHANGED labTests

\* POST /api/lab/tests/:id/assign
AssignTechnician(p, b, data, fail) ==
  /\ Idle(p)
  /\ IF fail
     THEN /\ Throw(p, Request("lab-assign", b, data), Failure, {})
          /\ UNCHANGED labTests
     ELSE /\ UpdateLabTest(data.id, [technicianId |-> data.technicianId])
          /\ Finish(p, Request("lab-assign", b, data), Answer("ok", 200, {}), {})
  /\ UNCHANGED <<settings, hospitals, users, patients, labResults, sessions, rooms, now>>

\* POST /api/lab/tests/:id/sample
SampleStatus(p, b, data, fail) ==
  /\ Idle(p)
  /\ LET user == IF sessions[b].username # "" THEN sessions[b].username
                 ELSE "Unknown"
         update == [sampleStatus |-> data.status, sampleCollectedBy |-> user,
                    sampleCollectedAt |-> now]
         rejected == [sampleStatus |-> data.status, sampleCollectedBy |-> user,
                      sampleCollectedAt |-> now,
                      rejectionReason |-> data.rejectionReason]
     IN IF fail
        THEN /\ Throw(p, Request("lab-sample", b, data), Failure, {})
          /\ UNCHANGED labTests
        ELSE /\ UpdateLabTest(data.id, IF data.status = "rejected" THEN rejected
                                       ELSE update)
             /\ Finish(p, Request("lab-sample", b, data), Answer("ok", 200, {}), {})
  /\ UNCHANGED <<settings, hospitals, users, patients, labResults, sessions, rooms, now>>

\* the endpoint as it would be with a transition table: a completed test is
\* not reopened
ProcessTest_Guarded(p, b, data, fail) ==
  /\ Idle(p)
  /\ LET update ==
           IF data.status = "in_progress"
           THEN [status |-> data.status, startedAt |-> now,
                 machineId |-> data.machineId]
           ELSE IF data.status = "completed"
           THEN [status |-> data.status, completedAt |-> now]
           ELSE [status |-> data.status]
         reopening == /\ data.id \in Ids(labTests)
                      /\ labTests[data.id].status = "completed"
                      /\ data.status # "completed"
     IN IF fail \/ reopening
        THEN /\ Throw(p, Request("lab-process", b, data), Failure, {})
             /\ UNCHANGED labTests
        ELSE /\ UpdateLabTest(data.id, update)
             /\ Finish(p, Request("lab-process", b, data), Answer("ok", 200, {}), {})
  /\ UNCHANGED <<settings, hospitals, users, patients, labResults, sessions, rooms, now>>

\* POST /api/lab/tests/:id/process
ProcessTest(p, b, data, fail) ==
  /\ Idle(p)
  /\ LET update ==
           IF data.status = "in_progress"
           THEN [status |-> data.status, startedAt |-> now,
                 machineId |-> data.machineId]
           ELSE IF data.status = "completed"
           THEN [status |-> data.status, completedAt |-> now]
           ELSE [status |-> data.status]
     IN IF fail
        THEN /\ Throw(p, Request("lab-process", b, data), Failure, {})
          /\ UNCHANGED labTests
        ELSE /\ UpdateLabTest(data.id, update)
             /\ Finish(p, Request("lab-process", b, data), Answer("ok", 200, {}), {})
  /\ UNCHANGED <<settings, hospitals, users, patients, labResults, sessions, rooms, now>>

-----------------------------------------------------------------------------
(* POST /api/lab/tests/:id/results: deleteMany, insertMany, findByIdAndUpdate *)

NotArray == <<[parameterName |-> "not an array", value |-> ""]>>

ResultsOf(testId) == SelectSeq(labResults, LAMBDA r : r.testId = testId)

ResultDocs(testId, results) ==
  [i \in 1..Len(results) |->
     [testId |-> testId, parameterName |-> results[i].parameterName,
      value |-> results[i].value]]

\* LabResultSchema: parameterName is required
ValidResult(doc) == doc.parameterName # ""

\* the endpoint as it would be if the old results were kept until the new
\* ones are stored
SaveResults_KeepOld(p, b, data, fail) ==
  /\ Idle(p)
  /\ IF data.results = NotArray
     THEN Finish(p, Request("lab-results", b, data), Answer("invalid", 400, {}), {})
     ELSE IF fail
     THEN Throw(p, Request("lab-results", b, data), Failure, {})
     ELSE Await(p, Request("lab-results", b, data), "res_insert", NoLoc)
  /\ UNCHANGED <<dbVars, sessions, rooms, now>>

\* a handler whose deleteMany has no filter
SaveResults_DeleteAll(p, b, data, fail) ==
  /\ Idle(p)
  /\ IF data.results = NotArray
     THEN /\ Finish(p, Request("lab-results", b, data), Answer("invalid", 400, {}), {})
          /\ UNCHANGED labResults
     ELSE IF fail
     THEN /\ Throw(p, Request("lab-results", b, data), Failure, {})
          /\ UNCHANGED labResults
     ELSE /\ labResults' = <<>>
          /\ Await(p, Request("lab-results", b, data), "res_insert", NoLoc)
  /\ UNCHANGED <<settings, hospitals, users, patients, labTests, sessions, rooms, now>>

SaveResults(p, b, data, fail) ==
  /\ Idle(p)
  /\ IF data.results = NotArray
     THEN /\ Finish(p, Request("lab-results", b, data), Answer("invalid", 400, {}), {})
          /\ UNCHANGED labResults
     ELSE IF fail
     THEN /\ Throw(p, Request("lab-results", b, data), Failure, {})
          /\ UNCHANGED labResults
     ELSE /\ labResults' = SelectSeq(labResults, LAMBDA r : r.testId # data.id)
          /\ Await(p, Request("lab-results", b, data), "res_insert", NoLoc)
  /\ UNCHANGED <<settings, hospitals, users, patients, labTests, sessions, rooms, now>>

ResultsInsert(p, fail) ==
  /\ pc[p] = "res_insert"
  /\ LET docs == ResultDocs(arg[p].data.id, arg[p].data.results)
     IN IF fail \/ \E i \in 1..Len(docs) : ~ValidResult(docs[i])
        THEN /\ IF fail THEN Throw(p, arg[p], Failure, {})
                ELSE Finish(p, arg[p], Failure, {})
             /\ UNCHANGED labResults
        ELSE /\ labResults' = labResults \o docs
             /\ Await(p, arg[p], "res_update", NoLoc)
  /\ UNCHANGED <<settings, hospitals, users, patients, labTests, sessions, rooms, now>>

ResultsComplete(p, fail) ==
  /\ pc[p] = "res_update"
  /\ IF fail
     THEN Throw(p, arg[p], Failure, {}) /\ UNCHANGED labTests
     ELSE /\ UpdateLabTest(arg[p].data.id,
                           [status |-> "completed", resultDate |-> now])
          /\ Finish(p, arg[p], Answer("ok", 200, {}), {})
  /\ UNCHANGED <<settings, hospitals, users, patients, labResults, sessions, rooms, now>>

-----------------------------------------------------------------------------
(* The lab dashboard's buttons.  Both send PUT /api/lab/tests/:id/status; the *)
(* server has no route for it, so the request runs through the middleware    *)
(* and is answered 404 with nothing stored.  fetch resolves on a 404, so the *)
(* dashboard shows its toast and reloads the section.                        *)

updateTestStatus(p, b, data) ==
  /\ Idle(p)
  /\ Finish(p, Request("lab-status", b, data),
            Answer("notfound", 404, {"toast: Status updated"}), {})
  /\ UNCHANGED <<dbVars, sessions, rooms, now>>

rejectSample(p, b, data) ==
  /\ Idle(p)
  /\ data.reason # ""
  /\ Finish(p, Request("lab-status", b,
                       [id |-> data.id, status |-> "rejected",
                        rejectionReason |-> data.reason]),
            Answer("notfound", 404, {"toast: Sample rejected"}), {})
  /\ UNCHANGED <<dbVars, sessions, rooms, now>>

-----------------------------------------------------------------------------
(* GET /api/lab/tests/:id: findById, then LabResult.find *)

GetTest(p, b, data, fail) ==
  /\ Idle(p)
  /\ IF fail THEN Throw(p, Request("lab-get", b, data), Failure, {})
     ELSE IF data.id \notin Ids(labTests)
     THEN Finish(p, Request("lab-get", b, data), Answer("notfound", 404, {}), {})
     ELSE Await(p, Request("lab-get", b, data), "get_results", [test |-> labTests[data.id]])
  /\ UNCHANGED <<dbVars, sessions, rooms, now>>

GetTestResults(p, fail) ==
  /\ pc[p] = "get_results"
  /\ LET found == ResultsOf(arg[p].data.id)
     IN IF fail THEN Throw(p, arg[p], Failure, {})
        ELSE Finish(p, arg[p], Answer("ok", 200,
                       {[test |-> loc[p].test, results |-> found]}), {})
  /\ UNCHANGED <<dbVars, sessions, rooms, now>>

-----------------------------------------------------------------------------
(* auth.js is not among the sources.  What src/database.js needs of it:    *)
(* the monthly password of a hospital is a function of the hospital's id,  *)
(* and a password is verified against what was generated or hashed from it *)

generateHospitalPassword(hospitalId) == <<"monthly", hospitalId>>

verifyHospitalPassword(hospitalId, password) ==
  password = generateHospitalPassword(hospitalId)

hashPassword(password) == <<"hash", password>>

comparePassword(password, hash) == hash = hashPassword(password)

SuperAdminPassword == <<"super">>

verifySuperAdminPassword(password) == password = SuperAdminPassword

-----------------------------------------------------------------------------
(* REST: hospitals and users.  b is the browser session of the request *)

\* a session without data; expires is the end of the cookie's maxAge, counted
\* from the last request that modified the session
NoSession ==
  [userId |-> 0, hospitalId |-> 0, username |-> "", role |-> "", expires |-> 0]

NewHospital(name, email) ==
  [name |-> name, email |-> email, subscriptionStatus |-> "active",
   subscriptionExpiry |-> now + TrialDays, lastLogin |-> 0]

NewUser(hospitalId, username, role, password) ==
  [hospitalId |-> hospitalId, username |-> username, role |-> role,
   password |-> password, lastLogin |-> 0]

\* the schema without the unique option of email, and no look-up either
DuplicateEmail_NotUnique(email) == FALSE

\* HospitalSchema: email is unique
DuplicateEmail(email) == \E i \in Ids(hospitals) : hospitals[i].email = email

\* the index as it would be without its unique option
DuplicateUser_NotUnique(doc) == FALSE

\* UserSchema.index({ hospitalId: 1, username: 1 }, { unique: true })
DuplicateUser(doc) ==
  \E i \in Ids(users) : /\ users[i].hospitalId = doc.hospitalId
                        /\ users[i].username = doc.username

RegisteringHospitals ==
  Cardinality({q \in Tasks : pc[q] \in {"hreg_hospital", "hreg_admin"}})
RoomForHospitals(max) == Len(hospitals) + RegisteringHospitals < max
RoomForUsers(max) == Len(users) + RegisteringHospitals < max

\* POST /api/hospitals/register: Hospital.findOne
RegisterHospital(p, b, data, fail) ==
  /\ Idle(p)
  /\ LET req == Request("hospital-register", b, data)
     IN IF \/ data.name = "" \/ data.email = ""
           \/ data.username = "" \/ data.password = ""
        THEN Finish(p, req, Answer("invalid", 400, {}), {})
        ELSE IF fail THEN Throw(p, req, Failure, {})
        ELSE IF DuplicateEmail(data.email)
        THEN Finish(p, req, Answer("invalid", 400, {}), {})
        ELSE Await(p, req, "hreg_hospital", NoLoc)
  /\ UNCHANGED <<dbVars, sessions, rooms, now>>

\* POST /api/hospitals/register: Hospital.create
RegisterCreateHospital(p, fail) ==
  /\ pc[p] = "hreg_hospital"
  /\ IF fail \/ DuplicateEmail(arg[p].data.email)
     THEN /\ Throw(p, arg[p], Failure, {})
          /\ UNCHANGED hospitals
     ELSE /\ hospitals' = Append(hospitals,
                                 NewHospital(arg[p].data.name, arg[p].data.email))
          /\ Await(p, arg[p], "hreg_admin", [hospitalId |-> Len(hospitals) + 1])
  /\ UNCHANGED <<settings, users, patients, labTests, labResults,
                 sessions, rooms, now>>

\* POST /api/hospitals/register: User.create and the answer
RegisterCreateAdmin(p, fail) ==
  /\ pc[p] = "hreg_admin"
  /\ LET hospitalId == loc[p].hospitalId
         doc == NewUser(hospitalId, arg[p].data.username, "admin",
                        hashPassword(arg[p].data.password))
     IN IF fail \/ DuplicateUser(doc)
        THEN /\ Throw(p, arg[p], Failure, {})
             /\ UNCHANGED users
        ELSE /\ users' = Append(users, doc)
             /\ Finish(p, arg[p],
                       Answer("ok", 200,
                              {[hospitalId |-> hospitalId,
                                password |-> generateHospitalPassword(hospitalId)]}),
                       {})
  /\ UNCHANGED <<settings, hospitals, patients, labTests, labResults,
                 sessions, rooms, now>>

\* User.create of the exported model (src/verify-mongo.js)
CreateUser(p, doc, fail) ==
  /\ Idle(p)
  /\ LET req == Request("user-create", "", doc)
     IN IF fail
        THEN /\ Throw(p, req, Answer("error", 0, {}), {})
             /\ UNCHANGED users
        ELSE IF DuplicateUser(doc)
        THEN /\ Throw(p, req, Answer("duplicate", 0, {}), {})
             /\ UNCHANGED users
        ELSE /\ users' = Append(users, doc)
             /\ Finish(p, req, Answer("ok", 0, {Len(users) + 1}), {})
  /\ UNCHANGED <<settings, hospitals, patients, labTests, labResults,
                 sessions, rooms, now>>

-----------------------------------------------------------------------------
(* POST /api/login *)

\* client slot p speaks through its own socket
ClientSocket(p) == IF p = 1 THEN "s1" ELSE "s2"

\* the loop without its check of the subscription
Login_AnyStatus(p, b, data, fail) ==
  /\ Idle(p)
  /\ LET req == Request("login", b, data)
         matching == {i \in Ids(hospitals) :
                        verifyHospitalPassword(i, data.hospitalPassword)}
         first == CHOOSE i \in matching : \A j \in matching : i <= j
     IN IF \/ data.hospitalPassword = <<>> \/ data.username = ""
           \/ data.userPassword = <<>>
        THEN Finish(p, req, Answer("invalid", 400, {}), {})
        ELSE IF fail THEN Throw(p, req, Failure, {})
        ELSE IF matching = {}
        THEN Finish(p, req, Answer("denied", 401, {}), {})
        ELSE Await(p, req, "login_user", [hospitalId |-> first])
  /\ UNCHANGED <<dbVars, sessions, rooms, now>>

\* Hospital.find({}) and the loop over the hospitals
Login(p, b, data, fail) ==
  /\ Idle(p)
  /\ LET req == Request("login", b, data)
         matching == {i \in Ids(hospitals) :
                        verifyHospitalPassword(i, data.hospitalPassword)}
         first == CHOOSE i \in matching : \A j \in matching : i <= j
     IN IF \/ data.hospitalPassword = <<>> \/ data.username = ""
           \/ data.userPassword = <<>>
        THEN Finish(p, req, Answer("invalid", 400, {}), {})
        ELSE IF fail THEN Throw(p, req, Failure, {})
        ELSE IF matching = {}
        THEN Finish(p, req, Answer("denied", 401, {}), {})
        ELSE IF hospitals[first].subscriptionStatus # "active"
        THEN Finish(p, req, Answer("expired", 403, {}), {})
        ELSE Await(p, req, "login_user", [hospitalId |-> first])
  /\ UNCHANGED <<dbVars, sessions, rooms, now>>

\* a look-up of the user by username alone
LoginFindUser_AnyHospital(p, fail) ==
  /\ pc[p] = "login_user"
  /\ LET found == {i \in Ids(users) : users[i].username = arg[p].data.username}
         id == CHOOSE i \in found : \A j \in found : i <= j
     IN IF fail THEN Throw(p, arg[p], Failure, {})
        ELSE IF \/ found = {}
                \/ ~comparePassword(arg[p].data.userPassword, users[id].password)
        THEN Finish(p, arg[p], Answer("denied", 401, {}), {})
        ELSE Await(p, arg[p], "login_touch_user",
                   [hospitalId |-> loc[p].hospitalId, userId |-> id,
                    user |-> users[id]])
  /\ UNCHANGED <<dbVars, sessions, rooms, now>>

\* User.findOne({ hospitalId, username }) and comparePassword
LoginFindUser(p, fail) ==
  /\ pc[p] = "login_user"
  /\ LET found == {i \in Ids(users) :
                     /\ users[i].hospitalId = loc[p].hospitalId
                     /\ users[i].username = arg[p].data.username}
         id == CHOOSE i \in found : \A j \in found : i <= j
     IN IF fail THEN Throw(p, arg[p], Failure, {})
        ELSE IF \/ found = {}
                \/ ~comparePassword(arg[p].data.userPassword, users[id].password)
        THEN Finish(p, arg[p], Answer("denied", 401, {}), {})
        ELSE Await(p, arg[p], "login_touch_user",
                   [hospitalId |-> loc[p].hospitalId, userId |-> id,
                    user |-> users[id]])
  /\ UNCHANGED <<dbVars, sessions, rooms, now>>

\* User.findByIdAndUpdate(user._id, { lastLogin })
LoginTouchUser(p, fail) ==
  /\ pc[p] = "login_touch_user"
  /\ IF fail
     THEN /\ Throw(p, arg[p], Failure, {})
          /\ UNCHANGED users
     ELSE /\ users' = IF loc[p].userId \in Ids(users)
                      THEN [users EXCEPT ![loc[p].userId].lastLogin = now]
                      ELSE users
          /\ Await(p, arg[p], "login_touch_hospital", loc[p])
  /\ UNCHANGED <<settings, hospitals, patients, labTests, labResults,
                 sessions, rooms, now>>

\* Hospital.findByIdAndUpdate(matchedHospitalId, { lastLogin }), the session
\* and the answer
LoginTouchHospital(p, fail) ==
  /\ pc[p] = "login_touch_hospital"
  /\ IF fail
     THEN /\ Throw(p, arg[p], Failure, {})
          /\ UNCHANGED <<hospitals, sessions>>
     ELSE /\ hospitals' = IF loc[p].hospitalId \in Ids(hospitals)
                          THEN [hospitals EXCEPT
                                  ![loc[p].hospitalId].lastLogin = now]
                          ELSE hospitals
          /\ sessions' = [sessions EXCEPT ![arg[p].who] =
                            [userId |-> loc[p].userId,
                             hospitalId |-> loc[p].hospitalId,
                             username |-> loc[p].user.username,
                             role |-> loc[p].user.role,
                             expires |-> now + DayLength]]
          /\ Finish(p, arg[p],
                    Answer("ok", 200, {[id |-> loc[p].userId,
                                        hospitalId |-> loc[p].hospitalId]}), {})
  /\ UNCHANGED <<settings, users, patients, labTests, labResults, rooms, now>>

\* POST /api/admin/login
AdminLogin(p, b, data) ==
  /\ Idle(p)
  /\ IF verifySuperAdminPassword(data.password)
     THEN /\ sessions' = [sessions EXCEPT ![b].role = "superadmin",
                                          ![b].username = "Super Admin",
                                          ![b].expires = now + DayLength]
          /\ Finish(p, Request("admin-login", b, data), Answer("ok", 200, {}), {})
     ELSE /\ UNCHANGED sessions
          /\ Finish(p, Request("admin-login", b, data), Answer("denied", 401, {}), {})
  /\ UNCHANGED <<dbVars, rooms, now>>

\* GET /api/auth/status
AuthStatus(p, b) ==
  /\ Idle(p)
  /\ Finish(p, Request("auth-status", b, {}),
            Answer("ok", 200,
                   IF sessions[b].userId # 0
                   THEN {[authenticated |-> TRUE,
                          id |-> sessions[b].userId,
                          username |-> sessions[b].username,
                          role |-> sessions[b].role,
                          hospitalId |-> sessions[b].hospitalId]}
                   ELSE {[authenticated |-> FALSE]}), {})
  /\ UNCHANGED <<dbVars, sessions, rooms, now>>

\* POST /api/logout
Logout(p, b) ==
  /\ Idle(p)
  /\ sessions' = [sessions EXCEPT ![b] = NoSession]
  /\ Finish(p, Request("logout", b, {}), Answer("ok", 200, {}), {})
  /\ UNCHANGED <<dbVars, rooms, now>>

\* GET /api/hospital/info
HospitalInfo(p, b, fail) ==
  /\ Idle(p)
  /\ LET req == Request("hospital-info", b, {})
     IN IF sessions[b].hospitalId = 0
        THEN Finish(p, req, Answer("unauthenticated", 401, {}), {})
        ELSE IF fail THEN Throw(p, req, Failure, {})
        ELSE Finish(p, req, Answer("ok", 200,
                                   {sessions[b].hospitalId} \cap Ids(hospitals)), {})
  /\ UNCHANGED <<dbVars, sessions, rooms, now>>

-----------------------------------------------------------------------------
(* REST: the superadmin's endpoints *)

\* a requireAdmin that lets every session through
IsSuperAdmin_Anyone(b) == TRUE

\* requireAdmin
IsSuperAdmin(b) == sessions[b].role = "superadmin"

Unauthorized == Answer("unauthorized", 401, {})

Unauthenticated == Answer("unauthenticated", 401, {})

\* GET /api/admin/hospitals
AdminHospitals(p, b, fail) ==
  /\ Idle(p)
  /\ LET req == Request("admin-hospitals", b, {})
     IN IF ~IsSuperAdmin(b) THEN Finish(p, req, Unauthorized, {})
        ELSE IF fail THEN Throw(p, req, Failure, {})
        ELSE Finish(p, req, Answer("ok", 200, Ids(hospitals)), {})
  /\ UNCHANGED <<dbVars, sessions, rooms, now>>

\* GET /api/admin/users
AdminUsers(p, b, fail) ==
  /\ Idle(p)
  /\ LET req == Request("admin-users", b, {})
     IN IF ~IsSuperAdmin(b) THEN Finish(p, req, Unauthorized, {})
        ELSE IF fail THEN Throw(p, req, Failure, {})
        ELSE Finish(p, req, Answer("ok", 200, Ids(users)), {})
  /\ UNCHANGED <<dbVars, sessions, rooms, now>>

\* GET /api/admin/hospital-password/:id
AdminHospitalPassword(p, b, data) ==
  /\ Idle(p)
  /\ LET req == Request("admin-hospital-password", b, data)
     IN IF ~IsSuperAdmin(b) THEN Finish(p, req, Unauthorized, {})
        ELSE Finish(p, req,
                    Answer("ok", 200, {generateHospitalPassword(data.id)}), {})
  /\ UNCHANGED <<dbVars, sessions, rooms, now>>

\* Hospital.findByIdAndUpdate(id, update): no document, no change, no error
UpdateHospital(id, update) ==
  IF id \in Ids(hospitals)
  THEN hospitals' = [hospitals EXCEPT ![id] =
                       [f \in DOMAIN @ |-> IF f \in DOMAIN update THEN update[f]
                                           ELSE @[f]]]
  ELSE UNCHANGED hospitals

\* PUT /api/admin/hospitals/:id/status
AdminStatus(p, b, data, fail) ==
  /\ Idle(p)
  /\ LET req == Request("admin-status", b, data)
     IN IF ~IsSuperAdmin(b)
        THEN Finish(p, req, Unauthorized, {}) /\ UNCHANGED hospitals
        ELSE IF fail
        THEN Throw(p, req, Failure, {}) /\ UNCHANGED hospitals
        ELSE /\ UpdateHospital(data.id, [subscriptionStatus |-> data.status])
             /\ Finish(p, req, Answer("ok", 200, {}), {})
  /\ UNCHANGED <<settings, users, patients, labTests, labResults,
                 sessions, rooms, now>>

\* PUT /api/admin/hospitals/:id/expiry: with expiryDate one update, with
\* daysToAdd Hospital.findById first
AdminExpiry(p, b, data, fail) ==
  /\ Idle(p)
  /\ LET req == Request("admin-expiry", b, data)
     IN IF ~IsSuperAdmin(b)
        THEN Finish(p, req, Unauthorized, {}) /\ UNCHANGED hospitals
        ELSE IF data.expiryDate # 0
        THEN IF fail THEN Throw(p, req, Failure, {}) /\ UNCHANGED hospitals
             ELSE /\ UpdateHospital(data.id,
                                    [subscriptionExpiry |-> data.expiryDate,
                                     subscriptionStatus |-> "active"])
                  /\ Finish(p, req, Answer("ok", 200, {data.expiryDate}), {})
        ELSE IF data.daysToAdd # 0
        THEN /\ UNCHANGED hospitals
             /\ IF fail THEN Throw(p, req, Failure, {})
                ELSE Await(p, req, "expiry_update",
                           [base |-> IF data.id \in Ids(hospitals)
                                     THEN hospitals[data.id].subscriptionExpiry
                                     ELSE now])
        ELSE Finish(p, req, Answer("invalid", 400, {}), {}) /\ UNCHANGED hospitals
  /\ UNCHANGED <<settings, users, patients, labTests, labResults,
                 sessions, rooms, now>>

AdminExpiryUpdate(p, fail) ==
  /\ pc[p] = "expiry_update"
  /\ LET newExpiry == loc[p].base + arg[p].data.daysToAdd
     IN IF fail THEN Throw(p, arg[p], Failure, {}) /\ UNCHANGED hospitals
        ELSE /\ UpdateHospital(arg[p].data.id,
                               [subscriptionExpiry |-> newExpiry,
                                subscriptionStatus |-> "active"])
             /\ Finish(p, arg[p], Answer("ok", 200, {newExpiry}), {})
  /\ UNCHANGED <<settings, users, patients, labTests, labResults,
                 sessions, rooms, now>>

\* the endpoint as it would be if its catch block answered with an empty list
GetHospitals_Quiet(p, b, fail) ==
  /\ Idle(p)
  /\ IF fail THEN Throw(p, Request("hospitals", b, {}), Answer("ok", 200, {}), {})
     ELSE Finish(p, Request("hospitals", b, {}),
                 Answer("ok", 200, Ids(hospitals)), {})
  /\ UNCHANGED <<dbVars, sessions, rooms, now>>

\* GET /api/hospitals
GetHospitals(p, b, fail) ==
  /\ Idle(p)
  /\ IF fail THEN Throw(p, Request("hospitals", b, {}), Failure, {})
     ELSE Finish(p, Request("hospitals", b, {}),
                 Answer("ok", 200, Ids(hospitals)), {})
  /\ UNCHANGED <<dbVars, sessions, rooms, now>>

-----------------------------------------------------------------------------
(* REST: reading patients.  An answer's data are the _ids of the patients  *)
(* it returns                                                              *)

\* query.hospitalId is set only if the session has a hospitalId
InHospital(doc, hospitalId) == hospitalId = 0 \/ doc.hospitalId = hospitalId

\* GET /api/patients: Patient.countDocuments(query)
GetPatients(p, b, fail) ==
  /\ Idle(p)
  /\ LET req == Request("patients", b, {})
         hospitalId == sessions[b].hospitalId
     IN IF fail THEN Throw(p, req, Failure, {})
        ELSE Await(p, req, "patients_find",
                   [hospitalId |-> hospitalId,
                    total |-> Cardinality({i \in Ids(patients) :
                                InHospital(patients[i], hospitalId)})])
  /\ UNCHANGED <<dbVars, sessions, rooms, now>>

\* GET /api/patients: Patient.find(query), first page
GetPatientsFind(p, fail) ==
  /\ pc[p] = "patients_find"
  /\ IF fail THEN Throw(p, arg[p], Failure, {})
     ELSE Finish(p, arg[p],
                 Answer("ok", 200, {i \in Ids(patients) :
                                      InHospital(patients[i], loc[p].hospitalId)}),
                 {})
  /\ UNCHANGED <<dbVars, sessions, rooms, now>>

\* GET /api/patients/:id
GetPatient(p, b, data, fail) ==
  /\ Idle(p)
  /\ LET req == Request("patient", b, data)
     IN IF fail THEN Throw(p, req, Failure, {})
        ELSE IF \/ data.id \notin Ids(patients)
                \/ ~InHospital(patients[data.id], sessions[b].hospitalId)
        THEN Finish(p, req, Answer("notfound", 404, {}), {})
        ELSE Finish(p, req, Answer("ok", 200, {data.id}), {})
  /\ UNCHANGED <<dbVars, sessions, rooms, now>>

\* $or: prescription $ne '', status 'pharmacy', pharmacyState $ne null
HasPrescription(doc) ==
  \/ doc.prescription # <<>>
  \/ doc.status = "pharmacy"
  \/ doc.pharmacyState # ""

\* GET /api/prescriptions
GetPrescriptions(p, b, fail) ==
  /\ Idle(p)
  /\ LET req == Request("prescriptions", b, {})
     IN IF fail THEN Throw(p, req, Failure, {})
        ELSE Finish(p, req,
                    Answer("ok", 200,
                           {i \in Ids(patients) :
                              /\ HasPrescription(patients[i])
                              /\ InHospital(patients[i], sessions[b].hospitalId)}),
                    {})
  /\ UNCHANGED <<dbVars, sessions, rooms, now>>

\* the first day of the month or of the year of now
StartDate(type) ==
  IF type = "year" THEN (now \div YearLength) * YearLength
  ELSE (now \div MonthLength) * MonthLength

\* GET /api/export
Export(p, b, data, fail) ==
  /\ Idle(p)
  /\ LET req == Request("export", b, data)
     IN IF fail THEN Throw(p, req, Failure, {})
        ELSE Finish(p, req,
                    Answer("ok", 200,
                           {i \in Ids(patients) :
                              patients[i].registeredAt >= StartDate(data.type)}),
                    {})
  /\ UNCHANGED <<dbVars, sessions, rooms, now>>

-----------------------------------------------------------------------------
(* REST: the lab dashboard's reads *)

CountTests(hospitalId, Matches(_)) ==
  Cardinality({i \in Ids(labTests) :
                 labTests[i].hospitalId = hospitalId /\ Matches(labTests[i])})

\* GET /api/lab/stats
LabStats(p, b, fail) ==
  /\ Idle(p)
  /\ LET req == Request("lab-stats", b, {})
         h == sessions[b].hospitalId
     IN IF h = 0 THEN Finish(p, req, Unauthenticated, {})
        ELSE IF fail THEN Throw(p, req, Failure, {})
        ELSE Finish(p, req,
               Answer("ok", 200,
                 {[pending |-> CountTests(h, LAMBDA t : t.status = "pending"),
                   inProgress |-> CountTests(h, LAMBDA t : t.status = "in_progress"),
                   completed |-> CountTests(h, LAMBDA t : t.status = "completed"),
                   urgent |-> CountTests(h, LAMBDA t : /\ t.priority = "urgent"
                                                       /\ t.status # "completed"),
                   samplesToCollect |->
                     CountTests(h, LAMBDA t : t.sampleStatus = "pending")]}),
               {})
  /\ UNCHANGED <<dbVars, sessions, rooms, now>>

\* GET /api/lab/tests?status=
GetLabTests(p, b, data, fail) ==
  /\ Idle(p)
  /\ LET req == Request("lab-tests", b, data)
         h == sessions[b].hospitalId
     IN IF h = 0 THEN Finish(p, req, Unauthenticated, {})
        ELSE IF fail THEN Throw(p, req, Failure, {})
        ELSE Finish(p, req,
                    Answer("ok", 200,
                           {i \in Ids(labTests) :
                              /\ labTests[i].hospitalId = h
                              /\ data.status \in {"", "all", labTests[i].status}}),
                    {})
  /\ UNCHANGED <<dbVars, sessions, rooms, now>>

-----------------------------------------------------------------------------
(* REST: inventory, test types, prescription template *)

\* the documents a find({ hospitalId }) returns; without a session the filter
\* holds hospitalId: undefined, which the driver either drops (every document
\* matches) or sends as null (none does)
OfHospital(docs, hospitalId, dropped) ==
  {i \in Ids(docs) : IF hospitalId = 0 THEN dropped
                     ELSE docs[i].hospitalId = hospitalId}

\* GET /api/lab/inventory
GetInventory(p, b, dropped, fail) ==
  /\ Idle(p)
  /\ IF fail THEN Throw(p, Request("inventory", b, {}), Failure, {})
     ELSE Finish(p, Request("inventory", b, {}),
                 Answer("ok", 200,
                        OfHospital(labInventory, sessions[b].hospitalId, dropped)),
                 {})
  /\ UNCHANGED <<dbVars, sessions, rooms, now>>

\* POST /api/lab/inventory: hospitalId and itemName are required
PostInventory(p, b, data, fail) ==
  /\ Idle(p)
  /\ LET req == Request("inventory-add", b, data)
     IN IF fail
        THEN /\ Throw(p, req, Failure, {})
             /\ UNCHANGED labInventory
        ELSE IF sessions[b].hospitalId = 0 \/ data.itemName = ""
        THEN /\ Finish(p, req, Failure, {})
             /\ UNCHANGED labInventory
        ELSE /\ labInventory' =
                  Append(labInventory, [hospitalId |-> sessions[b].hospitalId,
                                        itemName |-> data.itemName])
             /\ Finish(p, req, Answer("ok", 200, {Len(labInventory) + 1}), {})
  /\ UNCHANGED <<hospitals, users, patients, labTests, labResults,
                 labTestTypes, templates, sessions, rooms, now>>

\* GET /api/lab/settings/test-types
GetTestTypes(p, b, dropped, fail) ==
  /\ Idle(p)
  /\ IF fail THEN Throw(p, Request("test-types", b, {}), Failure, {})
     ELSE Finish(p, Request("test-types", b, {}),
                 Answer("ok", 200,
                        OfHospital(labTestTypes, sessions[b].hospitalId, dropped)),
                 {})
  /\ UNCHANGED <<dbVars, sessions, rooms, now>>

\* POST /api/lab/settings/test-types: hospitalId and name are required
PostTestType(p, b, data, fail) ==
  /\ Idle(p)
  /\ LET req == Request("test-type-add", b, data)
     IN IF fail
        THEN /\ Throw(p, req, Failure, {})
             /\ UNCHANGED labTestTypes
        ELSE IF sessions[b].hospitalId = 0 \/ data.name = ""
        THEN /\ Finish(p, req, Failure, {})
             /\ UNCHANGED labTestTypes
        ELSE /\ labTestTypes' =
                  Append(labTestTypes, [hospitalId |-> sessions[b].hospitalId,
                                        name |-> data.name])
             /\ Finish(p, req, Answer("ok", 200, {Len(labTestTypes) + 1}), {})
  /\ UNCHANGED <<hospitals, users, patients, labTests, labResults,
                 labInventory, templates, sessions, rooms, now>>

\* a look-up that never finds the hospital's template
TemplatesOf_None(hospitalId) == {}

TemplatesOf(hospitalId) ==
  {i \in Ids(templates) : templates[i].hospitalId = hospitalId}

\* GET /api/prescription-template: the stored template or the default one
GetTemplate(p, b, fail) ==
  /\ Idle(p)
  /\ LET req == Request("template", b, {})
         h == sessions[b].hospitalId
     IN IF h = 0 THEN Finish(p, req, Unauthenticated, {})
        ELSE IF fail THEN Throw(p, req, Failure, {})
        ELSE IF TemplatesOf(h) = {}
        THEN Finish(p, req, Answer("ok", 200, {"Default Template"}), {})
        ELSE Finish(p, req,
                    Answer("ok", 200,
                           {templates[i].templateName : i \in TemplatesOf(h)}), {})
  /\ UNCHANGED <<dbVars, sessions, rooms, now>>

\* POST /api/prescription-template: data.hospitalId = hospitalId, then
\* findOneAndUpdate({ hospitalId }, data) with upsert and setDefaultsOnInsert:
\* the fields of the body are set, the others keep their value or default
PostTemplate(p, b, data, fail) ==
  /\ Idle(p)
  /\ LET req == Request("template-save", b, data)
         h == sessions[b].hospitalId
         named == "templateName" \in DOMAIN data
         created == [hospitalId |-> h,
                     templateName |-> IF named THEN data.templateName
                                      ELSE "Default Template"]
         first == CHOOSE j \in TemplatesOf(h) : \A k \in TemplatesOf(h) : j <= k
     IN IF h = 0
        THEN Finish(p, req, Unauthenticated, {}) /\ UNCHANGED templates
        ELSE IF fail
        THEN Throw(p, req, Failure, {}) /\ UNCHANGED templates
        ELSE /\ templates' =
                  IF TemplatesOf(h) = {} THEN Append(templates, created)
                  ELSE [templates EXCEPT ![first] =
                          [hospitalId |-> h,
                           templateName |-> IF named THEN data.templateName
                                            ELSE @.templateName]]
             /\ Finish(p, req, Answer("ok", 200, {}), {})
  /\ UNCHANGED <<hospitals, users, patients, labTests, labResults,
                 labInventory, labTestTypes, sessions, rooms, now>>

-----------------------------------------------------------------------------
(* The prescription as a PDF and on the public portal *)

\* crypto.randomBytes(32).toString('hex')
PublicTokens == {"t1", "t2"}

\* GET /api/prescription-pdf/:patientId: Patient.findOne by public token or
\* by the session's hospital
PrescriptionPdf(p, b, data, fail) ==
  /\ Idle(p)
  /\ LET req == Request("prescription-pdf", b, data)
         id == data.patientId
         byToken == id \in Ids(patients) /\ patients[id].publicToken = data.token
         bySession == /\ id \in Ids(patients)
                      /\ patients[id].hospitalId = sessions[b].hospitalId
         found == IF data.token # "" THEN byToken ELSE bySession
         hospitalId == IF data.token # "" /\ byToken THEN patients[id].hospitalId
                       ELSE sessions[b].hospitalId
     IN IF data.token = "" /\ sessions[b].hospitalId = 0
        THEN Finish(p, req, Unauthenticated, {})
        ELSE IF fail THEN Throw(p, req, Failure, {})
        ELSE IF ~found THEN Finish(p, req, Answer("notfound", 404, {}), {})
        ELSE Await(p, req,
                   IF patients[id].publicToken = "" THEN "pdf_token"
                   ELSE "pdf_template",
                   [patient |-> patients[id], hospitalId |-> hospitalId])
  /\ UNCHANGED <<dbVars, sessions, rooms, now>>

\* patient.publicToken = generatePublicToken(); patient.save()
PdfSaveToken(p, token, fail) ==
  /\ pc[p] = "pdf_token"
  /\ LET id == arg[p].data.patientId
         changed == [loc[p].patient EXCEPT !.publicToken = token]
     IN IF fail
        THEN /\ Throw(p, arg[p], Failure, {})
             /\ UNCHANGED patients
        ELSE /\ patients' = [patients EXCEPT
                               ![id] = SavePatient(@, loc[p].patient, changed)]
             /\ Await(p, arg[p], "pdf_template",
                      [patient |-> changed, hospitalId |-> loc[p].hospitalId])
  /\ UNCHANGED <<settings, hospitals, users, labTests, labResults,
                 sessions, rooms, now>>

\* PrescriptionTemplate.findOne({ hospitalId })
PdfTemplate(p, fail) ==
  /\ pc[p] = "pdf_template"
  /\ IF fail THEN Throw(p, arg[p], Failure, {})
     ELSE Await(p, arg[p], "pdf_hospital", loc[p])
  /\ UNCHANGED <<dbVars, sessions, rooms, now>>

\* Hospital.findById(hospitalId) and the document piped to the response
PdfHospital(p, fail) ==
  /\ pc[p] = "pdf_hospital"
  /\ IF fail THEN Throw(p, arg[p], Failure, {})
     ELSE Finish(p, arg[p],
                 Answer("ok", 200, {arg[p].data.patientId}), {})
  /\ UNCHANGED <<dbVars, sessions, rooms, now>>

\* GET /api/public/prescription/:token: Patient.findOne({ publicToken })
PublicPrescription(p, b, data, fail) ==
  /\ Idle(p)
  /\ LET req == Request("public-prescription", b, data)
         found == {i \in Ids(patients) : patients[i].publicToken = data.token}
     IN IF fail THEN Throw(p, req, Failure, {})
        ELSE IF found = {} THEN Finish(p, req, Answer("notfound", 404, {}), {})
        ELSE Await(p, req, "public_hospital",
                   [id |-> CHOOSE i \in found : \A j \in found : i <= j])
  /\ UNCHANGED <<dbVars, sessions, rooms, now>>

\* GET /api/public/prescription/:token: Hospital.findById
PublicHospital(p, fail) ==
  /\ pc[p] = "public_hospital"
  /\ IF fail THEN Throw(p, arg[p], Failure, {})
     ELSE Finish(p, arg[p], Answer("ok", 200, {loc[p].id}), {})
  /\ UNCHANGED <<dbVars, sessions, rooms, now>>

-----------------------------------------------------------------------------
(* The clock *)

Tick ==
  /\ now < MaxClock
  /\ now' = now + 1
  /\ UNCHANGED <<dbVars, sessions, rooms, pc, arg, loc, resp, sent, fault>>

\* an hour passes: a session whose cookie's maxAge has run out is gone
Elapse ==
  /\ now < MaxSessionClock
  /\ now' = now + 1
  /\ sessions' = [b \in SessionIds |->
                    IF sessions[b].expires <= now + 1 THEN NoSession
                    ELSE sessions[b]]
  /\ UNCHANGED <<dbVars, rooms, pc, arg, loc, resp, sent, fault>>

\* the server restarts: the requests in flight and the socket rooms are lost,
\* the database and the stored sessions are kept
ServerRestart ==
  /\ pc' = [p \in Tasks |-> "idle"]
  /\ arg' = [p \in Tasks |-> NoArg]
  /\ loc' = [p \in Tasks |-> NoLoc]
  /\ resp' = [p \in Tasks |->
                IF pc[p] = "idle" THEN resp[p]
                ELSE Answered(arg[p], Answer("lost", 0, {}))]
  /\ rooms' = [s \in Sockets |-> {}]
  /\ UNCHANGED <<dbVars, sessions, sent, fault, now>>

\* client p's browser is closed and opened again: the page and its socket are
\* gone, the cookie, which has a maxAge, is kept
BrowserReopen(p) ==
  /\ Idle(p)
  /\ resp' = [resp EXCEPT ![p] = NoResp]
  /\ sent' = [sent EXCEPT ![p] = {}]
  /\ rooms' = [rooms EXCEPT ![ClientSocket(p)] = {}]
  /\ UNCHANGED <<dbVars, sessions, pc, arg, loc, fault, now>>

-----------------------------------------------------------------------------
(* The server after start-up over an empty database *)

Init ==
  /\ hospitals = <<>>
  /\ users = <<>>
  /\ patients = <<>>
  /\ labTests = <<>>
  /\ labResults = <<>>
  /\ labInventory = <<>>
  /\ labTestTypes = <<>>
  /\ templates = <<>>
  /\ sessions = [b \in SessionIds |-> NoSession]
  /\ rooms = [s \in Sockets |-> {}]
  /\ pc = [p \in Tasks |-> "idle"]
  /\ arg = [p \in Tasks |-> NoArg]
  /\ loc = [p \in Tasks |-> NoLoc]
  /\ resp = [p \in Tasks |-> NoResp]
  /\ sent = [p \in Tasks |-> {}]
  /\ fault = [p \in Tasks |-> FALSE]
  /\ now = 1

-----------------------------------------------------------------------------

-----------------------------------------------------------------------------
(* The reception desk: two clients register patients in two departments of *)
(* two hospitals                                                            *)

TokenInputs ==
  [name : {<<"A">>}, department : {"", "ENT"}, hospitalId : {0, 1},
   doctorId : {0}, prescription : {Undef}]
    \cup [name : {<<" ">>, Undef}, department : {""}, hospitalId : {0},
          doctorId : {0}, prescription : {Undef}]

NextTokens ==
  \/ \E p \in Tasks, d \in TokenInputs, f \in BOOLEAN :
       RoomForPatients(MaxPatients) /\ RegisterPatient(p, ClientSocket(p), d, f)
  \/ \E p \in Tasks, f \in BOOLEAN : RegisterCreate(p, f)

SpecTokens == Init /\ [][NextTokens]_vars

SameQueue(a, b) == a.hospitalId = b.hospitalId /\ a.department = b.department

\* C1: every stored registration gets the token one greater than the number
\* of patients stored for its hospital and department at that moment, so the
\* tokens of one queue run 1, 2, 3, ... without gaps.
C1_TokenIsCountPlusOne ==
  [][Len(patients') > Len(patients) =>
       LET new == patients'[Len(patients')]
       IN new.token = 1 + Cardinality({i \in Ids(patients) :
                                          SameQueue(patients[i], new)})]_vars

\* C3: no two stored patients of one hospital and department share a token,
\* whatever the interleaving of the registrations.
C3_TokensUnique ==
  \A i, j \in Ids(patients) :
    (i # j /\ SameQueue(patients[i], patients[j]))
      => patients[i].token # patients[j].token

-----------------------------------------------------------------------------
(* The four socket handlers of one client and the rooms of two sockets *)

SocketOps ==
  {"register-patient", "move-patient", "update-prescription", "create-lab-request"}

RoomNames == {"doctors", "reception", "pharmacy", "lab"}

OneRegistration ==
  [name : {<<"A">>, <<" ">>}, department : {""}, hospitalId : {1},
   doctorId : {0}, prescription : {Undef}]

MoveInputs ==
  [id : {1, 2}, status : {"pharmacy"}, doctorId : {0}, pharmacyState : {""}]

PrescriptionInputs == [id : {1, 2}, prescription : {<<"C","B","C">>, Undef}]

LabRequestInputs == [patientId : {1, 2}, testName : {""}, doctorId : {0}]

JoinRoles == {"doctor", "reception", "pharmacy", "lab", "admin"}

NextSockets ==
  \/ \E r \in JoinRoles \ {"lab"} : Join("s1", r)
  \/ \E r \in {"doctor", "lab"} : Join("s2", r)
  \/ \E s \in Sockets, d \in OneRegistration, f \in BOOLEAN :
       RoomForPatients(MaxSocketPatients) /\ RegisterPatient(1, s, d, f)
  \/ \E f \in BOOLEAN : RegisterCreate(1, f)
  \/ \E s \in Sockets, d \in MoveInputs, f \in BOOLEAN : MovePatient(1, s, d, f)
  \/ \E f \in BOOLEAN : MoveSave(1, f)
  \/ \E s \in Sockets, d \in PrescriptionInputs, f \in BOOLEAN :
       RoomForLabTests(MaxSocketLabTests) /\ UpdatePrescription(1, s, d, f)
  \/ \E f \in BOOLEAN : UpdateFindExisting(1, f)
  \/ \E f \in BOOLEAN : UpdateCreateTest(1, f)
  \/ \E s \in Sockets, d \in LabRequestInputs, f \in BOOLEAN :
       RoomForLabTests(MaxSocketLabTests) /\ CreateLabRequest(1, s, d, f)
  \/ \E f \in BOOLEAN : CreateLabTest(1, f)

SpecSockets == Init /\ [][NextSockets]_vars

\* the sockets a finished handler's emit to a room reached
Recipients(deliveries, room) == {d.to : d \in {e \in deliveries : e.via = room}}

\* C5: join with role doctor, reception, pharmacy or lab makes the socket a
\* member of room doctors, reception, pharmacy or lab, join with any other
\* role adds it to no room, and what a handler emits to a room reaches exactly
\* the sockets that are members of the room, and nobody through a room the
\* handler does not emit to.
C5_RoomsAndDeliveries ==
  [][/\ \A s \in Sockets :
          /\ Join(s, "doctor") => rooms'[s] = rooms[s] \cup {"doctors"}
          /\ Join(s, "reception") => rooms'[s] = rooms[s] \cup {"reception"}
          /\ Join(s, "pharmacy") => rooms'[s] = rooms[s] \cup {"pharmacy"}
          /\ Join(s, "lab") => rooms'[s] = rooms[s] \cup {"lab"}
          /\ Join(s, "admin") => rooms'[s] = rooms[s]
     /\ \A p \in Tasks :
          (/\ pc'[p] = "idle"
           /\ (pc[p] # "idle" \/ resp'[p] # resp[p] \/ sent'[p] # sent[p])) =>
            LET done == resp'[p].outcome = "ok"
                op == resp'[p].op
                emitsTo ==
                  IF ~done THEN {}
                  ELSE IF op = "register-patient" THEN {"doctors", "reception"}
                  ELSE IF op = "move-patient"
                  THEN {"doctors", "reception", "pharmacy"}
                  ELSE IF op = "update-prescription"
                  THEN {"doctors", "reception"}
                         \cup (IF labTests' # labTests THEN {"lab"} ELSE {})
                  ELSE IF op = "create-lab-request" THEN {"lab"}
                  ELSE {}
            IN \A room \in RoomNames :
                 Recipients(sent'[p], room) =
                   IF room \in emitsTo THEN Members(room) ELSE {}]_vars

\* C5 happens: a lab request reached the socket in room lab and not the other
\* socket, which joined as admin or not at all and is in no room.
C5_Witness ==
  \E p \in Tasks :
    /\ pc[p] = "idle" /\ resp[p].op = "create-lab-request"
    /\ resp[p].outcome = "ok"
    /\ Recipients(sent[p], "lab") = {"s2"}
    /\ rooms["s2"] = {"lab"}

ErrorEvents == {"patient-registration-error", "lab-request-created{success:false}"}

\* C8: whenever a socket handler fails (a database operation throws, or the
\* patient it names does not exist) an error-carrying event goes back to the
\* originating socket and nothing goes to any other socket.
C8_FailureReported ==
  \A p \in Tasks :
    (/\ pc[p] = "idle" /\ resp[p].op \in SocketOps
     /\ (fault[p] \/ resp[p].outcome = "notfound"))
      => /\ \E d \in sent[p] : d.ev \in ErrorEvents /\ d.to = resp[p].who
         /\ \A d \in sent[p] : d.to = resp[p].who

-----------------------------------------------------------------------------
(* Two clients, each sending one update of the same patient or the same lab *)
(* test                                                                     *)

ClientSession(p) == IF p = 1 THEN "b1" ELSE "b2"

RaceOps ==
  {"move-patient", "update-prescription", "lab-process", "lab-sample", "lab-results"}

RaceRegistration ==
  [name : {<<"A">>}, department : {""}, hospitalId : {1}, doctorId : {0},
   prescription : {Undef}]

RaceLabRequest == [patientId : {1}, testName : {""}, doctorId : {0}]

RaceMoves ==
  {[id |-> 1, status |-> "doctor", doctorId |-> 0, pharmacyState |-> ""],
   [id |-> 1, status |-> "pharmacy", doctorId |-> 0, pharmacyState |-> "ready"]}

RacePrescriptions == [id : {1}, prescription : {<<"A">>, <<"B">>}]

RaceProcess == [id : {1}, status : {"in_progress", "completed"}, machineId : {"M1"}]

RaceSample ==
  [id : {1}, status : {"collected", "rejected"}, rejectionReason : {"clotted"}]

RaceResults ==
  [id : {1},
   results : { <<[parameterName |-> "Hb", value |-> "14"]>>,
               <<[parameterName |-> "Hb", value |-> "9"]>> }]

\* the patient and the test exist, and client p has not sent its update yet
Racing(p) == labTests # <<>> /\ resp[p].op \notin RaceOps

NextRace ==
  \/ \E d \in RaceRegistration :
       RoomForPatients(MaxRacePatients) /\ RegisterPatient(1, "s1", d, FALSE)
  \/ RegisterCreate(1, FALSE)
  \/ \E d \in RaceLabRequest :
       RoomForLabTests(MaxRaceLabTests) /\ CreateLabRequest(1, "s1", d, FALSE)
  \/ CreateLabTest(1, FALSE)
  \/ \E p \in Tasks, d \in RaceMoves :
       Racing(p) /\ MovePatient(p, ClientSocket(p), d, FALSE)
  \/ \E p \in Tasks : MoveSave(p, FALSE)
  \/ \E p \in Tasks, d \in RacePrescriptions :
       Racing(p) /\ UpdatePrescription(p, ClientSocket(p), d, FALSE)
  \/ \E p \in Tasks, d \in RaceProcess :
       Racing(p) /\ ProcessTest(p, ClientSession(p), d, FALSE)
  \/ \E p \in Tasks, d \in RaceSample :
       Racing(p) /\ SampleStatus(p, ClientSession(p), d, FALSE)
  \/ \E p \in Tasks, d \in RaceResults :
       Racing(p) /\ SaveResults(p, ClientSession(p), d, FALSE)
  \/ \E p \in Tasks : ResultsInsert(p, FALSE)
  \/ \E p \in Tasks : ResultsComplete(p, FALSE)
  \/ labTests # <<>> /\ Tick

SpecRace == Init /\ [][NextRace]_vars

\* C6: of two concurrent updates of one patient or one lab test neither is
\* rejected or reported as a conflict (both end as successful), and every
\* write stores the writer's values in the fields it writes, whatever was
\* stored since the writer read the record, and leaves the other fields as
\* they are: each field holds what its last writer wrote.
C6_LastWriterWins ==
  [][/\ \A p \in Tasks : resp'[p].op \in RaceOps => resp'[p].outcome = "ok"
     /\ \A p \in Tasks :
          (pc[p] = "move_save" /\ pc'[p] = "idle") =>
            LET asked == arg[p].data
                loaded == loc[p].patient
                before == patients[asked.id]
                after == patients'[asked.id]
            IN /\ after.status =
                    IF asked.status \notin {"", loaded.status}
                    THEN asked.status ELSE before.status
               /\ after.pharmacyState =
                    IF asked.pharmacyState \notin {"", loaded.pharmacyState}
                    THEN asked.pharmacyState ELSE before.pharmacyState
               /\ after.prescription = before.prescription
     /\ \A p \in Tasks, d \in RacePrescriptions :
          (Racing(p) /\ UpdatePrescription(p, ClientSocket(p), d, FALSE)) =>
            /\ patients'[d.id].prescription = d.prescription
            /\ patients'[d.id].status = patients[d.id].status
            /\ patients'[d.id].pharmacyState = patients[d.id].pharmacyState
     /\ \A p \in Tasks, d \in RaceProcess :
          (Racing(p) /\ ProcessTest(p, ClientSession(p), d, FALSE)) =>
            /\ labTests'[d.id].status = d.status
            /\ labTests'[d.id].sampleStatus = labTests[d.id].sampleStatus
            /\ labTests'[d.id].resultDate = labTests[d.id].resultDate
     /\ \A p \in Tasks, d \in RaceSample :
          (Racing(p) /\ SampleStatus(p, ClientSession(p), d, FALSE)) =>
            /\ labTests'[d.id].sampleStatus = d.status
            /\ labTests'[d.id].status = labTests[d.id].status
     /\ \A p \in Tasks :
          (pc[p] = "res_update" /\ pc'[p] = "idle") =>
            /\ labTests'[arg[p].data.id].status = "completed"
            /\ labTests'[arg[p].data.id].resultDate = now
            /\ labTests'[arg[p].data.id].sampleStatus =
                 labTests[arg[p].data.id].sampleStatus]_vars

\* C6 happens: both clients moved patient 1 and both were served; client 1
\* loaded the patient before client 2 saved (its copy has no pharmacy state)
\* and saved after it, so the status client 2 wrote is gone.
C6_Witness ==
  /\ \A p \in Tasks :
       pc[p] = "idle" /\ resp[p].op = "move-patient" /\ resp[p].outcome = "ok"
  /\ \E doc \in resp[1].data : doc.status = "doctor" /\ doc.pharmacyState = ""
  /\ \E doc \in resp[2].data : doc.status = "pharmacy"
  /\ patients[1].status = "doctor"
  /\ patients[1].pharmacyState = "ready"

-----------------------------------------------------------------------------
(* The lab: client 1 works on a test while client 2 reads it *)

LabProcess ==
  [id : {1}, status : {"in_progress", "completed", "pending"}, machineId : {"M1"}]

LabResults ==
  [id : {1},
   results : { <<[parameterName |-> "Hb", value |-> "14"]>>,
               <<[parameterName |-> "", value |-> "1"]>>,
               NotArray }]

NextLab ==
  \/ \E d \in RaceRegistration :
       RoomForPatients(MaxRacePatients) /\ RegisterPatient(1, "s1", d, FALSE)
  \/ RegisterCreate(1, FALSE)
  \/ \E d \in RaceLabRequest :
       RoomForLabTests(MaxRaceLabTests) /\ CreateLabRequest(1, "s1", d, FALSE)
  \/ CreateLabTest(1, FALSE)
  \/ \E d \in LabProcess : labTests # <<>> /\ ProcessTest(1, "b1", d, FALSE)
  \/ \E d \in LabResults : labTests # <<>> /\ SaveResults(1, "b1", d, FALSE)
  \/ \E f \in BOOLEAN : ResultsInsert(1, f)
  \/ ResultsComplete(1, FALSE)
  \/ GetTest(2, "b2", [id |-> 1], FALSE)
  \/ GetTestResults(2, FALSE)

SpecLab == Init /\ [][NextLab]_vars

\* C4: POST /api/lab/tests/:id/process answers success and stores the status
\* the client sent, whatever the test's status was; it writes startedAt and
\* machineId only for status in_progress and completedAt only for status
\* completed.
C4_AnyStatusStored ==
  [][\A d \in LabProcess :
       (labTests # <<>> /\ ProcessTest(1, "b1", d, FALSE)) =>
         LET before == labTests[d.id]
             after == labTests'[d.id]
         IN /\ resp'[1].code = 200
            /\ after.status = d.status
            /\ IF d.status = "in_progress"
               THEN after.startedAt = now /\ after.machineId = d.machineId
               ELSE after.startedAt = before.startedAt
                      /\ after.machineId = before.machineId
            /\ IF d.status = "completed"
               THEN after.completedAt = now
               ELSE after.completedAt = before.completedAt]_vars

\* C4 happens: a test that was completed is pending again, and carries the
\* start and completion times of its earlier statuses.
C4_Witness ==
  /\ resp[1].op = "lab-process" /\ resp[1].code = 200
  /\ labTests # <<>>
  /\ labTests[1].status = "pending"
  /\ labTests[1].completedAt # 0
  /\ labTests[1].startedAt # 0

\* C7: saving results is three writes: the first deletes the test's results
\* and leaves the test as it is, the second inserts and leaves the test as it
\* is, the third marks the test completed; when the insert fails the request
\* is answered 500 and neither the (deleted) results nor the test's status
\* and resultDate change.
C7_ResultsNotAtomic ==
  [][LET after(id) == SelectSeq(labResults', LAMBDA r : r.testId = id)
     IN
     /\ (pc[1] = "idle" /\ pc'[1] = "res_insert") =>
          /\ after(arg'[1].data.id) = <<>>
          /\ labTests' = labTests
     /\ (pc[1] = "res_insert" /\ pc'[1] = "res_update") =>
          /\ after(arg[1].data.id) =
               ResultDocs(arg[1].data.id, arg[1].data.results)
          /\ labTests' = labTests
     /\ (pc[1] = "res_insert" /\ pc'[1] = "idle") =>
          /\ resp'[1].code = 500
          /\ after(arg[1].data.id) = <<>>
          /\ labTests' = labTests
     /\ (pc[1] = "res_update" /\ pc'[1] = "idle") =>
          /\ labResults' = labResults
          /\ labTests'[arg[1].data.id].status = "completed"
          /\ labTests'[arg[1].data.id].resultDate = now]_vars

\* C7 happens: the test was completed with results stored; while a second
\* save stands between its delete and its insert, a GET of the test was
\* answered with the completed test and no results.
C7_Witness ==
  /\ pc[1] = "res_insert"
  /\ resp[2].op = "lab-get" /\ resp[2].code = 200
  /\ \E view \in resp[2].data :
       /\ view.test.status = "completed"
       /\ view.test.resultDate # 0
       /\ view.results = <<>>

-----------------------------------------------------------------------------
(* Hospitals registering and users being created, two at a time *)

HospitalInputs ==
  [name : {"A"}, email : {"a@x", "b@x"}, username : {"admin"},
   password : {<<"pw">>}]
    \cup [name : {"A"}, email : {"a@x"}, username : {""}, password : {<<"pw">>}]

UserInputs ==
  [hospitalId : {1, 2}, username : {"admin", "lab"}, role : {"lab"},
   password : {hashPassword(<<"pw">>)}, lastLogin : {0}]

NextUsers ==
  \/ \E p \in Tasks, d \in HospitalInputs, f \in BOOLEAN :
       /\ RoomForHospitals(MaxHospitals) /\ RoomForUsers(MaxUsers)
       /\ RegisterHospital(p, ClientSession(p), d, f)
  \/ \E p \in Tasks, f \in BOOLEAN : RegisterCreateHospital(p, f)
  \/ \E p \in Tasks, f \in BOOLEAN : RegisterCreateAdmin(p, f)
  \/ \E p \in Tasks, d \in UserInputs, f \in BOOLEAN :
       RoomForUsers(MaxUsers) /\ CreateUser(p, d, f)

SpecUsers == Init /\ [][NextUsers]_vars

\* C2: no two stored users share (hospitalId, username): creating a user whose
\* hospitalId and username are those of a stored user is rejected and leaves
\* the users as they are, and a user whose username is stored under another
\* hospital only is stored.
C2_UsernameUniquePerHospital ==
  [][/\ \A i, j \in Ids(users') :
          (/\ users'[i].hospitalId = users'[j].hospitalId
           /\ users'[i].username = users'[j].username) => i = j
     /\ \A p \in Tasks, d \in UserInputs :
          (RoomForUsers(MaxUsers) /\ CreateUser(p, d, FALSE)) =>
            IF \E i \in Ids(users) : /\ users[i].hospitalId = d.hospitalId
                                     /\ users[i].username = d.username
            THEN users' = users /\ resp'[p].outcome = "duplicate"
            ELSE users' = Append(users, d) /\ resp'[p].outcome = "ok"]_vars

\* C2 happens: a user "admin" is stored under each of two hospitals, and the
\* last creation of a user, a second "admin" for one of them, was rejected.
C2_Witness ==
  /\ \E i, j \in Ids(users) :
       /\ users[i].username = "admin" /\ users[j].username = "admin"
       /\ users[i].hospitalId # users[j].hospitalId
  /\ \E p \in Tasks :
       /\ resp[p].op = "user-create" /\ resp[p].outcome = "duplicate"

-----------------------------------------------------------------------------
(* Client 1 sets a hospital up: it registers the hospital, logs in, becomes *)
(* superadmin, registers patients, orders a test and prints a prescription. *)
(* Meanwhile client 2 sends one REST request, on either browser session,    *)
(* and any database operation of that request may fail                      *)

RestHospital ==
  [name : {"A"}, email : {"a@x"}, username : {"admin"}, password : {<<"pw">>}]

RestLogin ==
  [hospitalPassword : {generateHospitalPassword(1), <<"guess">>},
   username : {"admin"}, userPassword : {<<"pw">>}]

RestRegistration ==
  [name : {<<"A">>}, department : {""}, hospitalId : {1, 2}, doctorId : {0},
   prescription : {Undef}]

\* client 1 never fails; client 2 sends one request
Served(p, fail) == p = 2 \/ ~fail
Once(p) == resp[p].op = "none"

NextRest ==
  \/ \E d \in RestHospital :
       /\ RoomForHospitals(MaxRestHospitals)
       /\ RegisterHospital(1, "b1", d, FALSE)
  \/ \E d \in {x \in RestLogin : x.hospitalPassword # <<"guess">>} :
       sessions["b1"].userId = 0 /\ Login(1, "b1", d, FALSE)
  \/ /\ sessions["b1"].role # "superadmin"
     /\ AdminLogin(1, "b1", [password |-> SuperAdminPassword])
  \/ \E d \in RestRegistration :
       /\ RoomForPatients(MaxRestPatients)
       /\ \A i \in Ids(patients) : patients[i].hospitalId # d.hospitalId
       /\ RegisterPatient(1, "s1", d, FALSE)
  \/ RegisterCreate(1, FALSE)
  \/ \E d \in RaceLabRequest :
       /\ RoomForLabTests(MaxRestLabTests)
       /\ CreateLabRequest(1, "s1", d, FALSE)
  \/ CreateLabTest(1, FALSE)
  \/ /\ patients # <<>> /\ patients[1].publicToken = ""
     /\ PrescriptionPdf(1, "b1", [patientId |-> 1, token |-> ""], FALSE)
  \/ \E b \in SessionIds, d \in HospitalInputs, f \in BOOLEAN :
       Once(2) /\ RegisterHospital(2, b, d, f)
  \/ \E p \in Tasks, f \in BOOLEAN : Served(p, f) /\ RegisterCreateHospital(p, f)
  \/ \E p \in Tasks, f \in BOOLEAN : Served(p, f) /\ RegisterCreateAdmin(p, f)
  \/ \E b \in SessionIds, d \in RestLogin, f \in BOOLEAN :
       Once(2) /\ Login(2, b, d, f)
  \/ \E p \in Tasks, f \in BOOLEAN : Served(p, f) /\ LoginFindUser(p, f)
  \/ \E p \in Tasks, f \in BOOLEAN : Served(p, f) /\ LoginTouchUser(p, f)
  \/ \E p \in Tasks, f \in BOOLEAN : Served(p, f) /\ LoginTouchHospital(p, f)
  \/ \E b \in SessionIds : Once(2) /\ Logout(2, b)
  \/ \E b \in SessionIds, f \in BOOLEAN : Once(2) /\ HospitalInfo(2, b, f)
  \/ \E b \in SessionIds, f \in BOOLEAN : Once(2) /\ AdminHospitals(2, b, f)
  \/ \E b \in SessionIds, f \in BOOLEAN : Once(2) /\ AdminUsers(2, b, f)
  \/ \E b \in SessionIds : Once(2) /\ AdminHospitalPassword(2, b, [id |-> 1])
  \/ \E b \in SessionIds, f \in BOOLEAN :
       Once(2) /\ AdminStatus(2, b, [id |-> 1, status |-> "expired"], f)
  \/ \E b \in SessionIds, f \in BOOLEAN,
        d \in [id : {1}, expiryDate : {0, 9}, daysToAdd : {0, 1}] :
       Once(2) /\ AdminExpiry(2, b, d, f)
  \/ \E f \in BOOLEAN : AdminExpiryUpdate(2, f)
  \/ \E b \in SessionIds, f \in BOOLEAN : Once(2) /\ GetHospitals(2, b, f)
  \/ \E b \in SessionIds, f \in BOOLEAN : Once(2) /\ GetPatients(2, b, f)
  \/ \E f \in BOOLEAN : GetPatientsFind(2, f)
  \/ \E b \in SessionIds, f \in BOOLEAN, id \in {1, 2} :
       Once(2) /\ GetPatient(2, b, [id |-> id], f)
  \/ \E b \in SessionIds, f \in BOOLEAN : Once(2) /\ GetPrescriptions(2, b, f)
  \/ \E b \in SessionIds, f \in BOOLEAN, type \in {"month", "year"} :
       Once(2) /\ Export(2, b, [type |-> type], f)
  \/ \E b \in SessionIds, f \in BOOLEAN : Once(2) /\ LabStats(2, b, f)
  \/ \E b \in SessionIds, f \in BOOLEAN :
       Once(2) /\ GetLabTests(2, b, [status |-> "pending"], f)
  \/ \E b \in SessionIds, status \in {"collection_pending", "processing"} :
       Once(2) /\ updateTestStatus(2, b, [id |-> 1, status |-> status])
  \/ \E b \in SessionIds :
       Once(2) /\ rejectSample(2, b, [id |-> 1, reason |-> "clotted"])
  \/ \E b \in SessionIds, f \in BOOLEAN :
       Once(2) /\ AssignTechnician(2, b, [id |-> 1, technicianId |-> 7], f)
  \/ \E b \in SessionIds, f \in BOOLEAN :
       Once(2) /\ SampleStatus(2, b, [id |-> 1, status |-> "collected",
                                      rejectionReason |-> ""], f)
  \/ \E b \in SessionIds, f \in BOOLEAN :
       Once(2) /\ ProcessTest(2, b, [id |-> 1, status |-> "in_progress",
                                     machineId |-> "M1"], f)
  \/ /\ labTests # <<>> /\ labResults = <<>>
     /\ SaveResults(1, "b1", [id |-> 1, results |->
                                <<[parameterName |-> "Hb", value |-> "12"]>>], FALSE)
  \/ \E b \in SessionIds, f \in BOOLEAN,
        d \in LabResults \cup [id : {2}, results : {<<>>}] :
       Once(2) /\ SaveResults(2, b, d, f)
  \/ \E p \in Tasks, f \in BOOLEAN : Served(p, f) /\ ResultsInsert(p, f)
  \/ \E p \in Tasks, f \in BOOLEAN : Served(p, f) /\ ResultsComplete(p, f)
  \/ \E d \in MoveInputs, f \in BOOLEAN : Once(2) /\ MovePatient(2, "s2", d, f)
  \/ \E f \in BOOLEAN : MoveSave(2, f)
  \/ \E d \in PrescriptionInputs, f \in BOOLEAN :
       /\ Once(2) /\ RoomForLabTests(MaxRestLabTests + 1)
       /\ UpdatePrescription(2, "s2", d, f)
  \/ \E f \in BOOLEAN : UpdateFindExisting(2, f)
  \/ \E f \in BOOLEAN : UpdateCreateTest(2, f)
  \/ \E b \in SessionIds, f \in BOOLEAN : Once(2) /\ GetTest(2, b, [id |-> 1], f)
  \/ \E f \in BOOLEAN : GetTestResults(2, f)
  \/ \E b \in SessionIds, dropped, f \in BOOLEAN :
       Once(2) /\ GetInventory(2, b, dropped, f)
  \/ \E b \in SessionIds, f \in BOOLEAN, item \in {"", "tubes"} :
       Once(2) /\ PostInventory(2, b, [itemName |-> item], f)
  \/ \E b \in SessionIds, dropped, f \in BOOLEAN :
       Once(2) /\ GetTestTypes(2, b, dropped, f)
  \/ \E b \in SessionIds, f \in BOOLEAN, name \in {"", "CBC"} :
       Once(2) /\ PostTestType(2, b, [name |-> name], f)
  \/ \E b \in SessionIds, f \in BOOLEAN : Once(2) /\ GetTemplate(2, b, f)
  \/ \E b \in SessionIds, f \in BOOLEAN :
       Once(2) /\ PostTemplate(2, b, [hospitalId |-> 1, templateName |-> "Clinic"], f)
  \/ \E b \in SessionIds, f \in BOOLEAN, token \in {"", "t1"} :
       Once(2) /\ PrescriptionPdf(2, b, [patientId |-> 1, token |-> token], f)
  \/ \E p \in Tasks, token \in PublicTokens, f \in BOOLEAN :
       Served(p, f) /\ PdfSaveToken(p, token, f)
  \/ \E p \in Tasks, f \in BOOLEAN : Served(p, f) /\ PdfTemplate(p, f)
  \/ \E p \in Tasks, f \in BOOLEAN : Served(p, f) /\ PdfHospital(p, f)
  \/ \E b \in SessionIds, f \in BOOLEAN :
       Once(2) /\ PublicPrescription(2, b, [token |-> "t1"], f)
  \/ \E f \in BOOLEAN : PublicHospital(2, f)

SpecRest == Init /\ [][NextRest]_vars

\* the REST handlers that read or write the database
RestOps ==
  {"hospital-register", "login", "hospital-info", "admin-hospitals",
   "admin-users", "admin-status", "admin-expiry", "hospitals", "patients",
   "patient", "prescriptions", "export", "lab-stats", "lab-tests",
   "lab-assign", "lab-sample", "lab-process", "lab-results", "lab-get",
   "inventory", "inventory-add", "test-types", "test-type-add", "template",
   "template-save", "prescription-pdf", "public-prescription"}

\* C9: a REST request one of whose database operations failed was answered
\* with status 500 and a message, never with a success.
C9_DatabaseFailureIs500 ==
  \A p \in Tasks :
    (fault[p] /\ resp[p].op \in RestOps) =>
      /\ resp[p].code = 500
      /\ resp[p].outcome = "error"
      /\ resp[p].data = {"message"}

\* C9 happens: a hospital registration failed at its last write, the admin
\* user; it was answered 500 and left its hospital behind without a user.
C9_Witness ==
  /\ pc[1] = "idle"
  /\ fault[2] /\ resp[2].op = "hospital-register" /\ resp[2].code = 500
  /\ Len(hospitals) > Len(users)

PatientReads == {"patients", "patient", "prescriptions", "export"}

\* C10: every patient a patient-reading endpoint returns belongs to the
\* hospital the requesting session is bound to, and a session bound to no
\* hospital is returned no patient.
C10_OnlyOwnPatientsReturned ==
  [][\A p \in Tasks :
       (/\ resp'[p] # resp[p]
        /\ resp'[p].op \in PatientReads
        /\ resp'[p].outcome = "ok") =>
         LET bound == IF pc[p] = "patients_find" THEN loc[p].hospitalId
                      ELSE sessions[resp'[p].who].hospitalId
         IN \A i \in resp'[p].data :
              bound # 0 /\ patients[i].hospitalId = bound]_vars

-----------------------------------------------------------------------------
(* Logins and subscriptions: client 1 registers two hospitals and, as the  *)
(* superadmin, sets their status and expiry; client 2 logs in              *)

MaxAuthHospitals == 2
MaxQueuePatients == 2
MaxQueueLabTests == 2
MaxExpiry == 33

NextAuth ==
  LET registrations ==
        <<[name |-> "A", email |-> "a@x", username |-> "a", password |-> <<"x">>],
          [name |-> "B", email |-> "b@x", username |-> "b", password |-> <<"y">>]>>
      logins ==
        [hospitalPassword : {generateHospitalPassword(1),
                             generateHospitalPassword(2), <<"guess">>},
         username : {"a", "b"}, userPassword : {<<"x">>}]
          \cup {[hospitalPassword |-> generateHospitalPassword(2),
                 username |-> "b", userPassword |-> <<"y">>],
                [hospitalPassword |-> generateHospitalPassword(1),
                 username |-> "", userPassword |-> <<"x">>]}
  IN
  \/ /\ RoomForHospitals(MaxAuthHospitals)
     /\ Len(hospitals) < Len(registrations)
     /\ RegisterHospital(1, "b1", registrations[Len(hospitals) + 1], FALSE)
  \/ RegisterCreateHospital(1, FALSE)
  \/ RegisterCreateAdmin(1, FALSE)
  \/ \E d \in logins, f \in BOOLEAN : Login(2, "b2", d, f)
  \/ \E f \in BOOLEAN : LoginFindUser(2, f)
  \/ \E f \in BOOLEAN : LoginTouchUser(2, f)
  \/ \E f \in BOOLEAN : LoginTouchHospital(2, f)
  \/ /\ ~IsSuperAdmin("b1")
     /\ AdminLogin(1, "b1", [password |-> SuperAdminPassword])
  \/ \E id \in {1, 2}, status \in {"active", "expired"} :
       AdminStatus(1, "b1", [id |-> id, status |-> status], FALSE)
  \/ \E d \in [id : {1}, expiryDate : {0, MaxExpiry}, daysToAdd : {0, 1}] :
       /\ \A i \in Ids(hospitals) : hospitals[i].subscriptionExpiry < MaxExpiry
       /\ AdminExpiry(1, "b1", d, FALSE)
  \/ AdminExpiryUpdate(1, FALSE)

SpecAuth == Init /\ [][NextAuth]_vars

\* C11: a login that succeeds was sent the password of the hospital it is bound
\* to, which was active when the handler read it, and the username and password
\* of a stored user of that hospital; it binds the session to that user's id,
\* username, role and hospitalId and has set lastLogin on the user and on the
\* hospital.  A login answered 400, 401 or 403 changes no session and no
\* lastLogin.
C11_LoginBindsVerifiedUser ==
  [][\A p \in Tasks :
       /\ (pc[p] = "idle" /\ pc'[p] = "login_user") =>
            LET h == loc'[p].hospitalId
            IN /\ verifyHospitalPassword(h, arg'[p].data.hospitalPassword)
               /\ hospitals[h].subscriptionStatus = "active"
       /\ (pc[p] = "login_touch_hospital" /\ pc'[p] = "idle" /\ ~fault'[p]) =>
            LET h == loc[p].hospitalId
                u == loc[p].userId
                d == arg[p].data
            IN /\ resp'[p].code = 200
               /\ verifyHospitalPassword(h, d.hospitalPassword)
               /\ u \in Ids(users)
               /\ users[u].hospitalId = h
               /\ users[u].username = d.username
               /\ comparePassword(d.userPassword, users[u].password)
               /\ sessions'[arg[p].who].userId = u
               /\ sessions'[arg[p].who].hospitalId = h
               /\ sessions'[arg[p].who].username = users[u].username
               /\ sessions'[arg[p].who].role = users[u].role
               /\ users'[u].lastLogin = now
               /\ hospitals'[h].lastLogin = now
       /\ (/\ pc'[p] = "idle"
           /\ pc[p] # "idle" \/ resp'[p] # resp[p]
           /\ resp'[p].op = "login"
           /\ resp'[p].code \in {400, 401, 403}) =>
            /\ sessions' = sessions
            /\ \A i \in Ids(users) : users'[i].lastLogin = users[i].lastLogin
            /\ \A i \in Ids(hospitals) :
                 hospitals'[i].lastLogin = hospitals[i].lastLogin]_vars

\* C11 happens: the user of the second hospital logged in with that hospital's
\* password while the first hospital was never logged in to.
C11_Witness ==
  /\ resp[2].op = "login" /\ resp[2].code = 200
  /\ sessions["b2"].userId = 2 /\ sessions["b2"].hospitalId = 2
  /\ users[2].lastLogin # 0 /\ hospitals[2].lastLogin # 0
  /\ hospitals[1].lastLogin = 0

-----------------------------------------------------------------------------
(* The superadmin's endpoints *)

\* C12: a request to an /api/admin/* endpoint other than the login, from a
\* session whose role is not 'superadmin', is answered 401 at once and changes
\* neither the database nor any session; and a session's role becomes
\* 'superadmin' only in a POST /api/admin/login with the super-admin password.
C12_AdminNeedsSuperadmin ==
  [][/\ \A p \in Tasks :
          LET op == IF pc'[p] = "idle" THEN resp'[p].op ELSE arg'[p].op
              who == IF pc'[p] = "idle" THEN resp'[p].who ELSE arg'[p].who
          IN (/\ pc[p] = "idle"
              /\ resp'[p] # resp[p] \/ pc'[p] # "idle"
              /\ op \in {"admin-hospitals", "admin-users",
                         "admin-hospital-password", "admin-status",
                         "admin-expiry"}
              /\ sessions[who].role # "superadmin") =>
               /\ pc'[p] = "idle"
               /\ resp'[p].code = 401
               /\ UNCHANGED <<dbVars, sessions>>
     /\ \A b \in SessionIds :
          (sessions'[b].role = "superadmin" /\ sessions[b].role # "superadmin") =>
            \E p \in Tasks : AdminLogin(p, b, [password |-> SuperAdminPassword])]_vars

\* C12 happens: a session logged in as a hospital's admin user, and not as the
\* superadmin, asked for a status change of its hospital and was answered 401.
C12_Witness ==
  /\ resp[2].op = "admin-status" /\ resp[2].code = 401
  /\ sessions[resp[2].who].userId # 0
  /\ sessions[resp[2].who].role = "admin"
  /\ hospitals[1].subscriptionStatus = "active"

-----------------------------------------------------------------------------
(* Stored records *)

\* C13 as stated: no operation removes a stored Hospital, User, Patient,
\* LabTest or LabResult record; every step keeps every stored record of the
\* five collections.
C13_NothingRemoved ==
  [][/\ Len(hospitals') >= Len(hospitals)
     /\ Len(users') >= Len(users)
     /\ Len(patients') >= Len(patients)
     /\ Len(labTests') >= Len(labTests)
     /\ Len(labResults') >= Len(labResults)
     /\ \A i \in 1..Len(labResults) : labResults'[i] = labResults[i]]_vars

\* C13, amended: no operation removes a stored Hospital, User, Patient or
\* LabTest record; LabResult records are removed by one step only, the
\* deleteMany of POST /api/lab/tests/:id/results, which removes the stored
\* results of the request's test and keeps those of every other test.
C13_OnlyResultsReplaced ==
  [][/\ Len(hospitals') >= Len(hospitals)
     /\ Len(users') >= Len(users)
     /\ Len(patients') >= Len(patients)
     /\ Len(labTests') >= Len(labTests)
     /\ \/ /\ Len(labResults') >= Len(labResults)
           /\ \A i \in 1..Len(labResults) : labResults'[i] = labResults[i]
        \/ \E p \in Tasks :
             /\ pc[p] = "idle" /\ pc'[p] = "res_insert"
             /\ labResults' =
                  SelectSeq(labResults, LAMBDA r : r.testId # arg'[p].data.id)]_vars

\* C13 happens: the results stored by an earlier request were deleted by a
\* second request for the same test, which has not inserted its own yet.
C13_Witness ==
  /\ pc[2] = "res_insert" /\ arg[2].data.id = 1
  /\ labTests # <<>> /\ labTests[1].status = "completed"
  /\ labResults = <<>>

-----------------------------------------------------------------------------
(* Sessions over time: one hospital, client 2 logs in and out, both clients *)
(* ask for the status of both sessions, hours pass, the server restarts and *)
(* browsers are reopened                                                     *)

NextSession ==
  \/ /\ RoomForHospitals(1)
     /\ RegisterHospital(1, "b1", [name |-> "A", email |-> "a@x",
                                   username |-> "a", password |-> <<"x">>], FALSE)
  \/ RegisterCreateHospital(1, FALSE)
  \/ RegisterCreateAdmin(1, FALSE)
  \/ \E pw \in {<<"x">>, <<"y">>} :
       Login(2, "b2", [hospitalPassword |-> generateHospitalPassword(1),
                       username |-> "a", userPassword |-> pw], FALSE)
  \/ LoginFindUser(2, FALSE)
  \/ LoginTouchUser(2, FALSE)
  \/ LoginTouchHospital(2, FALSE)
  \/ AdminLogin(2, "b2", [password |-> SuperAdminPassword])
  \/ Logout(2, "b2")
  \/ \E p \in Tasks, b \in SessionIds : AuthStatus(p, b)
  \/ Elapse
  \/ ServerRestart
  \/ \E p \in Tasks : Join(ClientSocket(p), "reception")
  \/ \E p \in Tasks : resp[p] # NoResp /\ BrowserReopen(p)

SpecSession == Init /\ [][NextSession]_vars

\* C14: GET /api/auth/status on a session that a login has bound to a user
\* reports authenticated: true with that user's id, username, role and
\* hospitalId, and authenticated: false on a session bound to no user; what a
\* session bound to a user holds changes only by a login, by POST /api/logout
\* and by the end of its 24 hours (so not by a restart of the server nor by
\* reopening the browser), and the last two leave the session empty.
C14_SessionPersists ==
  [][\A b \in SessionIds :
       LET u == sessions[b].userId
       IN /\ \A p \in Tasks :
               AuthStatus(p, b) =>
                 resp'[p].data =
                   IF u # 0
                   THEN {[authenticated |-> TRUE, id |-> u,
                          username |-> users[u].username,
                          role |-> users[u].role,
                          hospitalId |-> users[u].hospitalId]}
                   ELSE {[authenticated |-> FALSE]}
          /\ (u # 0 /\ sessions'[b] # sessions[b]) =>
               \/ \E p \in Tasks :
                    /\ pc[p] = "login_touch_hospital" /\ arg[p].who = b
                    /\ resp'[p].code = 200
               \/ (\E p \in Tasks : Logout(p, b)) /\ sessions'[b] = NoSession
               \/ /\ now' = now + 1 /\ sessions[b].expires <= now'
                  /\ sessions'[b] = NoSession
          /\ (now' = now + 1 /\ sessions[b].expires <= now') =>
               sessions'[b] = NoSession]_vars

-----------------------------------------------------------------------------
(* The lab dashboard *)

\* C15: when a status button of the lab dashboard has completed for a stored
\* test ('Accept & Collect Sample' with collection_pending, 'Sample Collected'
\* with processing, 'Reject Sample' with rejected), the status stored for the
\* test is the requested one.
C15_ButtonStoresStatus ==
  [][\A p \in Tasks, b \in SessionIds, id \in Ids(labTests) :
       /\ \A status \in {"collection_pending", "processing"} :
            updateTestStatus(p, b, [id |-> id, status |-> status]) =>
              labTests'[id].status = status
       /\ rejectSample(p, b, [id |-> id, reason |-> "clotted"]) =>
            labTests'[id].status = "rejected"]_vars

-----------------------------------------------------------------------------
(* Saving lab results *)

\* C16: when POST /api/lab/tests/:id/results with result list R is answered
\* with success, the stored results of the test are exactly R and the test is
\* completed; no step of the request changes the results of another test; GET
\* /api/lab/tests/:id returns exactly the stored results of that test; a
\* request whose results are not an array is answered 400 and changes nothing.
C16_ResultsReplaced ==
  [][\A p \in Tasks :
       /\ (pc[p] = "res_update" /\ pc'[p] = "idle" /\ resp'[p].outcome = "ok") =>
            LET id == arg[p].data.id
            IN /\ SelectSeq(labResults', LAMBDA r : r.testId = id) =
                    ResultDocs(id, arg[p].data.results)
               /\ id \in Ids(labTests) => labTests'[id].status = "completed"
       /\ (pc[p] \in {"res_insert", "res_update"} \/ pc'[p] = "res_insert") =>
            LET id == IF pc[p] = "idle" THEN arg'[p].data.id ELSE arg[p].data.id
            IN SelectSeq(labResults', LAMBDA r : r.testId # id) =
                 SelectSeq(labResults, LAMBDA r : r.testId # id)
       /\ (pc[p] = "get_results" /\ pc'[p] = "idle" /\ resp'[p].outcome = "ok") =>
            \A a \in resp'[p].data : a.results = ResultsOf(arg[p].data.id)
       /\ \A b \in SessionIds, id \in {1, 2}, f \in BOOLEAN :
            SaveResults(p, b, [id |-> id, results |-> NotArray], f) =>
              resp'[p].code = 400 /\ UNCHANGED dbVars]_vars

-----------------------------------------------------------------------------
(* Registration at the reception desk *)

\* C17: a register-patient that succeeds has stored one more patient, with
\* status 'waiting', and delivers patient-registered for the stored patient to
\* every socket in room doctors or reception and to the originating socket and
\* queue-updated to every connected socket, and nothing else; a
\* register-patient with a missing or blank name sends only
\* patient-registration-error, only to the originating socket, and stores
\* nothing.
C17_RegistrationDelivered ==
  [][\A p \in Tasks :
       /\ (pc[p] = "reg_create" /\ pc'[p] = "idle" /\ resp'[p].outcome = "ok") =>
            LET id == Len(patients')
                got(s, ev) == \E d \in sent'[p] :
                                d.to = s /\ d.ev = ev /\ d.pid = id
            IN /\ Truthy(arg[p].data.name) /\ Trim(arg[p].data.name) # <<>>
               /\ Len(patients') = Len(patients) + 1
               /\ patients'[id].status = "waiting"
               /\ \A s \in Sockets :
                    got(s, "patient-registered") <=>
                      \/ rooms[s] \cap {"doctors", "reception"} # {}
                      \/ s = arg[p].who
               /\ \A s \in Sockets : got(s, "queue-updated")
               /\ \A d \in sent'[p] :
                    /\ d.pid = id
                    /\ d.ev \in {"patient-registered", "queue-updated"}
       /\ (/\ pc[p] = "idle" /\ pc'[p] = "idle"
           /\ resp'[p] # resp[p] \/ sent'[p] # sent[p]
           /\ resp'[p].op = "register-patient"
           /\ resp'[p].outcome = "invalid") =>
            /\ sent'[p] # {}
            /\ \A e \in sent'[p] :
                 e.to = resp'[p].who /\ e.ev = "patient-registration-error"
            /\ UNCHANGED dbVars]_vars

\* C17 happens: a patient was registered from socket s1 while s2 was in room
\* doctors and s1 in no room; both got patient-registered and queue-updated.
C17_Witness ==
  /\ resp[1].op = "register-patient" /\ resp[1].outcome = "ok"
  /\ resp[1].who = "s1" /\ rooms["s1"] = {} /\ "doctors" \in rooms["s2"]
  /\ \A s \in Sockets : \E d \in sent[1] :
       d.to = s /\ d.ev = "patient-registered" /\ d.pid = 1
  /\ patients[1].status = "waiting"

-----------------------------------------------------------------------------
(* The queue: client 1 registers two patients of one hospital, then each    *)
(* client sends one move-patient or one update-prescription                 *)

NextQueue ==
  \/ /\ RoomForPatients(MaxQueuePatients)
     /\ RegisterPatient(1, "s1", [name |-> <<"A">>, department |-> "",
                                  hospitalId |-> 1, doctorId |-> 0,
                                  prescription |-> Undef], FALSE)
  \/ RegisterCreate(1, FALSE)
  \/ Join("s1", "reception")
  \/ Join("s2", "lab")
  \/ \E p \in Tasks, f \in BOOLEAN,
        d \in [id : {1, 3}, status : {"", "doctor"}, doctorId : {0, 2},
               pharmacyState : {"", "ready"}] :
       /\ patients # <<>>
       /\ resp[p].op \notin {"move-patient", "update-prescription"}
       /\ MovePatient(p, ClientSocket(p), d, f)
  \/ \E p \in Tasks, f \in BOOLEAN : MoveSave(p, f)
  \/ \E p \in Tasks, f \in BOOLEAN,
        d \in [id : {1}, prescription : {<<"C","B","C">>, <<"R">>}] :
       /\ patients # <<>> /\ RoomForLabTests(MaxQueueLabTests)
       /\ resp[p].op \notin {"move-patient", "update-prescription"}
       /\ UpdatePrescription(p, ClientSocket(p), d, f)
  \/ \E p \in Tasks, f \in BOOLEAN : UpdateFindExisting(p, f)
  \/ \E p \in Tasks, f \in BOOLEAN : UpdateCreateTest(p, f)

SpecQueue == Init /\ [][NextQueue]_vars

\* C18: a move-patient that saves changes only fields among status, doctorId
\* and pharmacyState for which the event carries a truthy value, and a field
\* it changes holds that value; every other field of the patient and every
\* other patient are as before; patient-updated goes to every socket and
\* queue-updated to the sockets in rooms doctors, reception and pharmacy.  A
\* move-patient for an id of no patient changes nothing and emits nothing.
C18_MoveChangesSuppliedFields ==
  [][\A p \in Tasks :
       /\ (pc[p] = "move_save" /\ pc'[p] = "idle" /\ resp'[p].outcome = "ok") =>
            LET data == arg[p].data
                before == patients[data.id]
                after == patients'[data.id]
                got(s, ev) == \E d \in sent'[p] :
                                d.to = s /\ d.ev = ev /\ d.pid = data.id
            IN /\ after.status # before.status =>
                    data.status # "" /\ after.status = data.status
               /\ after.doctorId # before.doctorId =>
                    data.doctorId # 0 /\ after.doctorId = data.doctorId
               /\ after.pharmacyState # before.pharmacyState =>
                    data.pharmacyState # "" /\ after.pharmacyState = data.pharmacyState
               /\ \A f \in DOMAIN before \ {"status", "doctorId", "pharmacyState"} :
                    after[f] = before[f]
               /\ Len(patients') = Len(patients)
               /\ \A i \in Ids(patients) \ {data.id} : patients'[i] = patients[i]
               /\ \A s \in Sockets :
                    /\ got(s, "patient-updated")
                    /\ got(s, "queue-updated") <=>
                         rooms[s] \cap {"doctors", "reception", "pharmacy"} # {}
       /\ (/\ pc[p] = "idle"
           /\ pc'[p] # "idle" \/ resp'[p] # resp[p]
           /\ IF pc'[p] = "idle" THEN resp'[p].op = "move-patient"
              ELSE arg'[p].op = "move-patient") =>
            /\ UNCHANGED dbVars
            /\ sent'[p] = {}
            /\ pc'[p] = "idle" <=>
                 (fault'[p] \/ resp'[p].outcome = "notfound")]_vars

\* C18 happens: a move-patient that carried a doctorId only was saved for
\* patient 1 after the other client had stored a prescription for that
\* patient; the prescription and the second patient are as they were.
C18_Witness ==
  /\ resp[1].op = "move-patient" /\ resp[1].outcome = "ok"
  /\ resp[2].op = "update-prescription" /\ resp[2].outcome = "ok"
  /\ Len(patients) = 2
  /\ patients[1].doctorId = 2 /\ patients[1].status = "waiting"
  /\ patients[1].prescription = <<"R">>
  /\ patients[2].doctorId # 2

\* C19: update-prescription creates a lab test only for a prescription with a
\* lab keyword and a patient that has no pending lab test ordered today, so no
\* patient has two pending lab tests created from prescriptions on one day;
\* and the creation emits lab-update once to each socket in room lab, and no
\* other step of update-prescription emits it.
C19_OnePendingLabTest ==
  [][\A p \in Tasks :
       /\ (pc[p] = "upd_create" /\ labTests' # labTests) =>
            LET id == arg[p].data.id
            IN /\ hasLabRequest(arg[p].data.prescription)
               /\ ~\E t \in Ids(labTests) :
                     /\ labTests[t].patientId = id
                     /\ labTests[t].orderedAt >= Today
                     /\ labTests[t].status = "pending"
               /\ \A s \in Sockets :
                    "lab" \in rooms[s] <=>
                      \E d \in sent'[p] : d.to = s /\ d.ev = "lab-update"
       /\ (/\ pc'[p] # pc[p] \/ resp'[p] # resp[p] \/ sent'[p] # sent[p]
           /\ resp'[p].op = "update-prescription"
           /\ pc[p] # "upd_create" \/ labTests' = labTests) =>
            ~\E d \in sent'[p] : d.ev = "lab-update"]_vars

-----------------------------------------------------------------------------
(* Subscriptions *)

\* C20: a login with the password of a stored hospital whose subscriptionStatus
\* is not 'active' is answered 403 'Subscription expired' and changes nothing,
\* and with the status 'active' it is not; a superadmin's expiry update that is
\* answered with success has set the stored hospital's subscriptionStatus to
\* 'active' and its expiry to expiryDate, or to the expiry it read plus
\* daysToAdd; an expiry update with neither is answered 400 and changes nothing.
C20_ExpiredUntilReactivated ==
  [][/\ \A h \in Ids(hospitals), p \in Tasks, b \in SessionIds,
          user \in {"a", "b"}, pw \in {<<"x">>, <<"y">>} :
          Login(p, b, [hospitalPassword |-> generateHospitalPassword(h),
                       username |-> user, userPassword |-> pw], FALSE) =>
            IF hospitals[h].subscriptionStatus # "active"
            THEN /\ pc'[p] = "idle"
                 /\ resp'[p].code = 403 /\ resp'[p].outcome = "expired"
                 /\ UNCHANGED <<dbVars, sessions>>
            ELSE pc'[p] = "login_user" /\ loc'[p].hospitalId = h
     /\ \A p \in Tasks, b \in SessionIds, id \in Ids(hospitals) :
          (sessions[b].role = "superadmin" /\
             AdminExpiry(p, b, [id |-> id, expiryDate |-> MaxExpiry,
                                daysToAdd |-> 0], FALSE)) =>
            /\ resp'[p].code = 200
            /\ hospitals'[id].subscriptionStatus = "active"
            /\ hospitals'[id].subscriptionExpiry = MaxExpiry
     /\ \A p \in Tasks :
          (pc[p] = "expiry_update" /\ pc'[p] = "idle" /\ resp'[p].code = 200) =>
            LET id == arg[p].data.id
            IN id \in Ids(hospitals) =>
                 /\ hospitals'[id].subscriptionStatus = "active"
                 /\ hospitals'[id].subscriptionExpiry =
                      loc[p].base + arg[p].data.daysToAdd
     /\ \A p \in Tasks :
          (pc[p] = "idle" /\ pc'[p] = "expiry_update") =>
            LET id == arg'[p].data.id
            IN loc'[p].base = IF id \in Ids(hospitals)
                              THEN hospitals[id].subscriptionExpiry ELSE now
     /\ \A p \in Tasks, b \in SessionIds, id \in {1, 2}, f \in BOOLEAN :
          (sessions[b].role = "superadmin" /\
             AdminExpiry(p, b, [id |-> id, expiryDate |-> 0, daysToAdd |-> 0], f)) =>
            /\ resp'[p].code = 400
            /\ UNCHANGED dbVars]_vars

\* C20 happens: a login was answered 403, the superadmin's expiry update then
\* succeeded, and the hospital is active with an expiry past its trial.
C20_Witness ==
  /\ resp[2].op = "login" /\ resp[2].code = 403
  /\ resp[1].op = "admin-expiry" /\ resp[1].code = 200
  /\ Len(hospitals) = 2
  /\ hospitals[1].subscriptionStatus = "active"
  /\ hospitals[1].subscriptionExpiry > 1 + TrialDays
  /\ hospitals[2].subscriptionStatus = "active"

-----------------------------------------------------------------------------
(* Hospital emails *)

\* C21: no two stored hospitals share an email; a registration whose email is
\* that of a stored hospital when the handler looks it up is answered 400 and
\* stores nothing, and one whose email has been stored by the time of its
\* Hospital.create stores no hospital: of two concurrent registrations with
\* one email at most one creates a hospital.
C21_HospitalEmailUnique ==
  [][/\ \A i, j \in Ids(hospitals') :
          hospitals'[i].email = hospitals'[j].email => i = j
     /\ \A p \in Tasks, d \in HospitalInputs :
          (/\ d.username # ""
           /\ \E i \in Ids(hospitals) : hospitals[i].email = d.email
           /\ RegisterHospital(p, ClientSession(p), d, FALSE)) =>
            /\ pc'[p] = "idle"
            /\ resp'[p].code = 400
            /\ UNCHANGED dbVars
     /\ \A p \in Tasks :
          (/\ pc[p] = "hreg_hospital" /\ pc'[p] # pc[p]
           /\ \E i \in Ids(hospitals) : hospitals[i].email = arg[p].data.email) =>
            /\ hospitals' = hospitals /\ users' = users
            /\ resp'[p].code = 500]_vars

\* C21 happens: two registrations with one email passed the look-up together;
\* the first has created its hospital, the second is about to try.
C21_Witness ==
  /\ pc[1] = "hreg_admin" /\ pc[2] = "hreg_hospital"
  /\ arg[1].data.email = arg[2].data.email
  /\ Len(hospitals) = 1 /\ hospitals[1].email = arg[2].data.email

-----------------------------------------------------------------------------
(* Prescription templates: client 1 registers two hospitals; each client    *)
(* logs its browser in to one of them, and both read and save templates on  *)
(* either browser session                                                   *)

\* bodies of POST /api/prescription-template, with and without a hospitalId
\* and a templateName of their own
TemplateInputs ==
  [hospitalId : {1, 2}, templateName : {"Clinic", "Ward"}]
    \cup {[templateName |-> "Clinic"], [hospitalId |-> 2]}

NextTemplates ==
  LET registrations ==
        <<[name |-> "A", email |-> "a@x", username |-> "a", password |-> <<"x">>],
          [name |-> "B", email |-> "b@x", username |-> "b", password |-> <<"y">>]>>
      logins ==
        {[hospitalPassword |-> generateHospitalPassword(1),
          username |-> "a", userPassword |-> <<"x">>],
         [hospitalPassword |-> generateHospitalPassword(2),
          username |-> "b", userPassword |-> <<"y">>]}
  IN
  \/ /\ RoomForHospitals(MaxAuthHospitals)
     /\ Len(hospitals) < Len(registrations)
     /\ RegisterHospital(1, "b1", registrations[Len(hospitals) + 1], FALSE)
  \/ RegisterCreateHospital(1, FALSE)
  \/ RegisterCreateAdmin(1, FALSE)
  \/ \E p \in Tasks, d \in logins :
       /\ sessions[ClientSession(p)].userId = 0
       /\ Login(p, ClientSession(p), d, FALSE)
  \/ \E p \in Tasks : LoginFindUser(p, FALSE)
  \/ \E p \in Tasks : LoginTouchUser(p, FALSE)
  \/ \E p \in Tasks : LoginTouchHospital(p, FALSE)
  \/ \E b \in SessionIds, f \in BOOLEAN : GetTemplate(2, b, f)
  \/ \E p \in Tasks, b \in SessionIds, d \in TemplateInputs, f \in BOOLEAN :
       Served(p, f) /\ PostTemplate(p, b, d, f)

SpecTemplates == Init /\ [][NextTemplates]_vars

\* C22: no hospital has two templates; a save on a session bound to a hospital
\* changes the template of that hospital alone, whatever hospitalId the body
\* names, and leaves that hospital with one template holding the body's name;
\* a read stores nothing and answers the default values for a hospital without
\* a template; a save or a read on a session bound to no hospital is answered
\* 401 and changes nothing.
C22_OneTemplatePerHospital ==
  [][/\ \A i, j \in Ids(templates') :
          templates'[i].hospitalId = templates'[j].hospitalId => i = j
     /\ \A p \in Tasks, b \in SessionIds, d \in TemplateInputs, f \in BOOLEAN :
          PostTemplate(p, b, d, f) =>
            LET h == sessions[b].hospitalId
                others(t) == {t[i] : i \in {j \in Ids(t) : t[j].hospitalId # h}}
                own(t) == {t[i] : i \in {j \in Ids(t) : t[j].hospitalId = h}}
            IN /\ UNCHANGED <<hospitals, users, patients, labTests, labResults,
                              labInventory, labTestTypes, sessions>>
               /\ h = 0 => resp'[p].code = 401 /\ templates' = templates
               /\ h # 0 =>
                    /\ resp'[p].code \in {200, 500}
                    /\ others(templates') = others(templates)
                    /\ resp'[p].code = 500 => templates' = templates
                    /\ resp'[p].code = 200 =>
                         /\ Cardinality(own(templates')) = 1
                         /\ \A t \in own(templates') :
                              "templateName" \in DOMAIN d =>
                                t.templateName = d.templateName
     /\ \A p \in Tasks, b \in SessionIds, f \in BOOLEAN :
          GetTemplate(p, b, f) =>
            LET h == sessions[b].hospitalId
            IN /\ UNCHANGED <<dbVars, sessions>>
               /\ h = 0 => resp'[p].code = 401
               /\ (/\ h # 0 /\ resp'[p].code = 200
                   /\ \A i \in Ids(templates) : templates[i].hospitalId # h) =>
                      resp'[p].data = {"Default Template"}]_vars

\* C22 happens: both clients saved a template, each on its own session, both
\* sessions bound to the second hospital: one template is stored, the
\* second hospital's.
C22_Witness ==
  /\ \A p \in Tasks : resp[p].op = "template-save" /\ resp[p].code = 200
  /\ resp[1].who # resp[2].who
  /\ sessions["b1"].hospitalId = 2
  /\ sessions["b2"].hospitalId = 2
  /\ Len(templates) = 1
  /\ templates[1] = [hospitalId |-> 2, templateName |-> "Ward"]

-----------------------------------------------------------------------------
(* Lab orders: client 1 registers a patient of each of two hospitals, socket *)
(* s2 joins the lab room, and both clients order lab tests, by prescription  *)
(* and by request, for stored and for unknown patients                       *)

NextOrders ==
  \/ /\ RoomForPatients(MaxQueuePatients)
     /\ RegisterPatient(1, "s1", [name |-> <<"A">>, department |-> "",
                                  hospitalId |-> Len(patients) + 1,
                                  doctorId |-> 0, prescription |-> Undef], FALSE)
  \/ RegisterCreate(1, FALSE)
  \/ Join("s2", "lab")
  \/ \E p \in Tasks, f \in BOOLEAN,
        d \in [id : {1, 2, 3}, prescription : {<<"C","B","C">>, <<"R">>}] :
       /\ RoomForLabTests(MaxQueueLabTests)
       /\ resp[p].op # "update-prescription"
       /\ UpdatePrescription(p, ClientSocket(p), d, f)
  \/ \E p \in Tasks, f \in BOOLEAN : UpdateFindExisting(p, f)
  \/ \E p \in Tasks, f \in BOOLEAN : UpdateCreateTest(p, f)
  \/ \E p \in Tasks, f \in BOOLEAN, d \in LabRequestInputs :
       /\ RoomForLabTests(MaxQueueLabTests)
       /\ resp[p].op # "create-lab-request"
       /\ CreateLabRequest(p, ClientSocket(p), d, f)
  \/ \E p \in Tasks, f \in BOOLEAN : CreateLabTest(p, f)

SpecOrders == Init /\ [][NextOrders]_vars

\* C23: a lab test that update-prescription or create-lab-request stores
\* carries the hospitalId of the stored patient it names and is pending, its
\* sample pending, its priority normal; a create-lab-request naming no stored
\* patient stores no lab test, delivers no lab-update and tells its own socket
\* lab-request-created with success false.
C23_LabTestOfPatientsHospital ==
  [][/\ \A n \in Ids(labTests') \ Ids(labTests) :
          LET t == labTests'[n]
          IN /\ t.patientId \in Ids(patients)
             /\ t.hospitalId = patients[t.patientId].hospitalId
             /\ t.status = "pending"
             /\ t.sampleStatus = "pending"
             /\ t.priority = "normal"
     /\ \A p \in Tasks, f \in BOOLEAN, d \in LabRequestInputs :
          (/\ d.patientId \notin Ids(patients)
           /\ CreateLabRequest(p, ClientSocket(p), d, f)) =>
            /\ labTests' = labTests
            /\ pc'[p] = "idle"
            /\ \A e \in sent'[p] : e.ev # "lab-update"
            /\ \E e \in sent'[p] :
                 /\ e.to = ClientSocket(p)
                 /\ e.ev = "lab-request-created{success:false}"]_vars

\* C23 happens: with s2 in the lab room, client 1's request for the patient of
\* the second hospital stored a lab test and was delivered to the lab, and
\* client 2's request for an unknown patient was refused.
C23_Witness ==
  /\ "lab" \in rooms["s2"]
  /\ Len(patients) = 2 /\ patients[2].hospitalId = 2
  /\ resp[1].op = "create-lab-request" /\ resp[1].outcome = "ok"
  /\ \E e \in sent[1] : e.ev = "lab-update" /\ e.to = "s2"
  /\ resp[2].op = "create-lab-request" /\ resp[2].outcome = "notfound"
  /\ Len(labTests) = 1
  /\ labTests[1].patientId = 2 /\ labTests[1].hospitalId = 2

-----------------------------------------------------------------------------
(* Patient records on the sockets *)

\* C24: when a handler delivers an event carrying a patient record to the
\* socket of another client whose browser session is bound to a hospital, that
\* hospital is the patient's.
C24_RecordsStayInHospital ==
  [][\A p, q \in Tasks :
       (sent'[p] # sent[p] /\ q # p) =>
         \A e \in sent'[p] :
           (/\ e.ev \in {"patient-registered", "queue-updated",
                        "patient-updated", "prescription-updated"}
            /\ e.pid \in Ids(patients')
            /\ e.to = ClientSocket(q)
            /\ sessions[ClientSession(q)].hospitalId # 0) =>
              patients'[e.pid].hospitalId = sessions[ClientSession(q)].hospitalId]_vars

-----------------------------------------------------------------------------
(* The lab's writes and the session's hospital *)

\* C25: a step that changes a stored lab test's technician, sample status or
\* processing status, or the results stored for it, is a step of a request
\* whose browser session is bound to the hospital of that lab test.
C25_LabWritesNeedOwnSession ==
  [][\A i \in Ids(labTests) :
       (\/ labTests'[i].technicianId # labTests[i].technicianId
        \/ labTests'[i].sampleStatus # labTests[i].sampleStatus
        \/ labTests'[i].status # labTests[i].status
        \/ SelectSeq(labResults', LAMBDA r : r.testId = i) # ResultsOf(i)) =>
         \E p \in Tasks :
           /\ pc'[p] # pc[p] \/ resp'[p] # resp[p]
           /\ LET b == IF pc'[p] # "idle" THEN arg'[p].who ELSE resp'[p].who
              IN /\ b \in SessionIds
                 /\ sessions[b].hospitalId = labTests[i].hospitalId]_vars

-----------------------------------------------------------------------------
(* What a session holds *)

\* C26: a session with a userId holds the username, role and hospitalId of
\* that stored user, and a session with role 'superadmin' has neither a userId
\* nor a hospitalId.
C26_SessionHoldsOneIdentity ==
  \A b \in SessionIds :
    LET u == sessions[b].userId
    IN /\ u # 0 =>
            /\ u \in Ids(users)
            /\ sessions[b].username = users[u].username
            /\ sessions[b].role = users[u].role
            /\ sessions[b].hospitalId = users[u].hospitalId
       /\ sessions[b].role = "superadmin" =>
            sessions[b].userId = 0 /\ sessions[b].hospitalId = 0

-----------------------------------------------------------------------------
(* Registration as a whole *)

\* C27: when a hospital registration ends with a failure after it created its
\* hospital, that hospital is no longer stored; and when no registration is
\* between its steps, every stored hospital has a user with role 'admin'.
C27_RegistrationAllOrNothing ==
  [][/\ \A p \in Tasks :
          (/\ pc[p] = "hreg_admin" /\ pc'[p] = "idle"
           /\ resp'[p].code # 200) =>
            loc[p].hospitalId \notin Ids(hospitals')
     /\ (\A p \in Tasks : pc'[p] \notin {"hreg_hospital", "hreg_admin"}) =>
          \A h \in Ids(hospitals') :
            \E u \in Ids(users') :
              users'[u].hospitalId = h /\ users'[u].role = "admin"]_vars

====
